---- MODULE Spec2Model ----
(***************************************************************************)
(* Verification model of yurazsb/uno: the connection engine (Conn), its    *)
(* stream transport (NETTransport), the datagram multiplexer (UDPSession)  *)
(* the Recv framing path, the servers, the rate limiter and the router.    *)
(*                                                                         *)
(* Specifications of the connection engine (one stream connection; the     *)
(* control loop, the write loop and the transport reader interleave with   *)
(* the callers at every access to shared state):                           *)
(*   Spec       Start, Close and Send callers together, one call each      *)
(*   SpecStart  concurrent and repeated Start calls, one Send caller       *)
(*   SpecClose  concurrent Close callers and one Send caller on a          *)
(*              connection its creator starts                              *)
(*   SpecSend   concurrent Send callers on a connection started once       *)
(*   SpecLive   one Start, Close and Send caller under fair scheduling of  *)
(*              the loops                                                  *)
(*   SpecBlock  Send callers on a send queue small enough to fill          *)
(*   SpecEscalate  one Start and one Send caller, fair scheduling, no      *)
(*              Close and no parent cancel                                 *)
(* In all of them the scope can also be canceled by the parent scope, by   *)
(* the reader (EOF, fatal read error) and by the write loop.               *)
(*                                                                         *)
(*   SpecUDP    the datagram multiplexer: packet delivery, the reaper and  *)
(*              the pseudo-connections' control loops                      *)
(*   SpecRecv   Conn.Recv with the line framer on byte slices that share   *)
(*              the read buffer's backing array, and the decode tasks      *)
(*   SpecUDPLive  SpecUDP under fair scheduling of the reaper and of the   *)
(*              canceled control loops                                     *)
(*   SpecIdle   the idle check of the control loop against Touch           *)
(*   SpecServer a stream or datagram server: Listen, serve, clear, the     *)
(*              reaper goroutine and concurrent Stop callers, under fair   *)
(*              scheduling                                                 *)
(*   SpecBucket concurrent Allow calls on one token bucket                 *)
(*   SpecLimit  RateLimitHandler with per-connection and global buckets    *)
(*   SpecRouter RouterHandler over a route, its groups and NotFound        *)
(*   SpecLRU    the router's LRU cache under any sequence of its methods   *)
(*   SpecTrie   concurrent Router.insert and Router.Match on the trie and  *)
(*              the cache, one atomic access a step                        *)
(*   SpecFramer Conn.Recv with each of the bundled framers                 *)
(*   SpecError  Conn.Recv with a framer and a decoder that return errors   *)
(*   SpecChain  the middleware chain down to the message hook              *)
(*   SpecPool   SubmitTask on a worker pool that can be full or closed     *)
(*   SpecGroups concurrent RouterGroup.Use and RouterGroup.Handlers        *)
(*   SpecPanic  the frame tasks of Recv with handlers and a message hook   *)
(*              that can panic                                             *)
(*   SpecWorkers  Submit on a pool whose workers spawn on demand and leave   *)
(*              when idle, under fair scheduling of workers and callers    *)
(*   SpecFraming  one call of the LengthFieldFramer, a round of its loop a   *)
(*              step, with the parameter settings of its documentation     *)
(*   SpecMachine  the state machine: Change and Event calls with hooks that  *)
(*              can fail at any stage                                      *)
(*   SpecReader the inbound loop of the stream transport, one statement a  *)
(*              step, with every kind of read error                        *)
(***************************************************************************)
EXTENDS Integers, Sequences, FiniteSets, TLC

(***************************************************************************)
(* Bounds.                                                                 *)
(***************************************************************************)
NumStarters == 2   \* goroutines that call Conn.Start
NumClosers == 2    \* goroutines that call Conn.Close
NumSenders == 2    \* goroutines that call Conn.Send
SeqCalls == 2      \* calls a goroutine makes one after the other, where it repeats
QueueCap == 2      \* capacity of sendCh (10_000 in NewConn), scaled down
SmallCap == 1      \* capacity of sendCh where Send callers are to find it full
NumPeers == 1      \* peer keys of the datagram multiplexer
MaxConns == 3      \* pseudo-connections the multiplexer creates in a run
MaxPackets == 3    \* packets the datagram read loop reads in a run
RecvCap == 1       \* capacity of UDPTransport.recvCh (10_000), scaled down
MaxRecvs == 3      \* calls of Conn.Recv in a run
SmallBuf == 4      \* capacity of a bytes.Buffer's first small allocation (64), scaled down
ReadBufferSize == 1 \* conf.Config.ReadBufferSize as the application sets it
UnitsPerSec == 2   \* clock units (nanoseconds) in a second (10^9), scaled down
IdleTimeout == 2   \* conf.Config.IdleTimeout, in clock units
MaxTime == 6       \* clock units a run of the idle check lasts
NumStoppers == 2   \* goroutines that call Server.Stop
MaxAccepts == 2    \* connections a server starts in a run
MaxIdleCfg == 2    \* largest configured IdleTimeout of a server, in seconds
NumAllowers == 2   \* goroutines that call Allow on one bucket
MaxAllows == 4     \* Allow calls in a run
BucketRate == 1    \* refillRate of the bucket: tokens per second
BucketBurst == 1   \* capacity of the bucket
MaxBucketTime == 3 \* clock units a run of the bucket lasts
NumLimitConns == 2 \* connections whose messages pass one rate limiter
NumGroupMw == 2    \* middleware handlers a route inherits from its groups
NumRouteMw == 1    \* handlers of the route itself
NumNotFound == 1   \* handlers of the NotFound chain
NumHandlers == 2   \* handlers of Config.Handlers
NumDispatchers == 2 \* goroutines of a connection that dispatch hooks
PoolQueue == 2     \* Options.Queue of the worker pool (1024), scaled down
StackLimit == 3    \* nested calls a goroutine stack holds (1 GB of frames), scaled down
LruCap == 2        \* capacity of the LRU cache
NumKeys == 3       \* keys (paths) offered to the LRU cache
NumRoutes == 2     \* values (routes) stored under a key
MaxLruOps == 5     \* Get, Add and Clear calls in a run of the cache
NumParts == 2      \* distinct path parts
MaxDepth == 1      \* parts in a path
NumInserters == 2  \* goroutines that register one route each
NumMatchers == 1   \* goroutines that call Router.Match
MatchCalls == 2    \* Match calls of one goroutine
NumGroups == 2     \* router groups, a chain from the root group down
NumUsers == 2      \* goroutines that call RouterGroup.Use
NumReaders == 2    \* goroutines that call RouterGroup.Handlers
HandlersCalls == 2 \* Handlers calls of one goroutine
MaxFrames == 3     \* frames the framer yields in a run
ChunkFrames == 2   \* frames in one chunk, at most
NumWorkers == 2    \* workers of the pool that run tasks at a time
MaxReads == 3      \* reads of the stream inbound loop in a run
MaxWorkers == 2    \* Options.MaxWorkers of the pool
NumSubmitters == 2 \* goroutines that call Submit on the pool
MaxTasks == 3      \* tasks handed to Submit in a run
NumStates == 3     \* states of the state machine
MaxEpoch == 5      \* transitions the state machine applies in a run
MaxRounds == 4     \* rounds of a framer loop that consume nothing before it counts as endless

Starters == {<<"start", i>> : i \in 1..NumStarters}
Closers == {<<"close", i>> : i \in 1..NumClosers}
Senders == {<<"send", i>> : i \in 1..NumSenders}
MainId == <<"loop", 1>>
WriterId == <<"loop", 2>>
ReaderId == <<"loop", 3>>
Loops == {MainId, WriterId, ReaderId}
Procs == Starters \cup Closers \cup Senders \cup Loops

Callers == Starters \cup Closers \cup Senders

VARIABLES
    pc,           \* position of every goroutine
    quota,        \* per caller: the number of calls it makes (fixed by Init)
    calls,        \* per caller: the calls it has invoked so far
    sendCap,      \* cap(c.sendCh) (fixed by Init)
    startOnce,    \* Conn.startOnce: "new", "running" (f executing), "done"
    closeOnce,    \* Conn.closeOnce
    active,       \* Conn.active (atomic.Bool)
    ctxDone,      \* Conn.Ctx is canceled
    cur,          \* the frame the write loop holds
    sendCh,       \* buffered frames of Conn.sendCh, oldest first
    sendChCloses, \* number of close(c.sendCh) executed
    closedCloses, \* number of close(c.closed) executed
    Wg,           \* counter of Conn.Wg
    outerWg,      \* this connection's share of the server/client WaitGroup
    launched,     \* goroutines launched by Start, per loop
    tStarts,      \* calls of Transport.Start
    tStops,       \* calls of Transport.Stop
    hooks,        \* hook dispatches (SubmitTask calls of dispatchX): how many per kind
                  \* (for the read and the message hook, of which a connection has
                  \* any number: 1 once one was dispatched)
    writeHooks,   \* the write-hook dispatches <<buf, err>>, in order
    early,        \* a read or message hook was dispatched before the connect hook
    late,         \* a hook was dispatched after the close hook
    enq,          \* frames in the order Send put them on sendCh
    deq,          \* frames in the order the write loop took them off sendCh
    written,      \* the calls of Transport.Write, <<buf, err>>, in order
    sendRes,      \* per Send caller: "none", "ok", "closed" or "panic"
    sendAt,       \* per Send caller, while the call runs: what it found when
                  \* invoked: "inactive", "canceled" or "live" ("none": no call runs)
    \* the datagram multiplexer (UDPSession and its pseudo-connections)
    connMap,      \* UDPSession.connMap: peer key -> pseudo-connection (0: no entry)
    ust,          \* per pseudo-connection: "none", "started", "canceled" (scope
                  \* canceled), "stopped" (Transport.Stop done), "closed", "discarded"
    keyOf,        \* per pseudo-connection: its peer key (0: not created)
    recvq,        \* per pseudo-connection: the packets buffered in recvCh, oldest first
    arrived,      \* the packets the serve goroutine has read, as a count
    lastRecv,     \* per pseudo-connection: the latest packet given to Recv (0: none)
    dp,           \* position of the serve goroutine inside Delivery
    rp,           \* position of the reaper goroutine inside Reaper
    stale,        \* per pseudo-connection: now - LastActive() exceeds the idle threshold
    \* the Recv path of one connection with a delimiter framer
    mem,          \* the backing arrays allocated so far, each a sequence of bytes
    readBuf,      \* Conn.readBuf: its backing array (0: nil) and its length
    tasks,        \* decode tasks submitted and not yet run: the frame slices
    delivered,    \* the payloads the decode tasks saw, in submission order
    stream,       \* the chunks received so far
    framer,       \* Config.Framer of the connection, fixed by Init
    yielded,      \* history: the frames the framer returned, as it returned them
    decoder,      \* Config.Decoder of the connection, fixed by Init
    readHooks,    \* history: the read hooks dispatched, each its chunk and error
    errHooks,     \* history: the frames whose decoder error went to the error hook
    \* the idle check of one connection's control loop
    now,          \* the wall clock (time.Now().UnixNano()), in clock units
    last,         \* Conn.last: the clock value Touch stored (0: never)
    nextTick,     \* when the idle ticker fires next
    idleNotified, \* mainLoop's idleNotified
    idleHooks,    \* idle-hook dispatches
    idleSent,     \* an idle hook was dispatched since the last Touch
    idleArmed,    \* no idle hook was dispatched since an idle tick last saw
                  \* activity younger than the timeout
    idleMissed,   \* an idle tick found the connection idle for longer than the
                  \* timeout, no idle hook since its last activity, and dispatched none
    idleRepeat,   \* an idle hook was dispatched while not armed
    \* a server (tcp or udp), its Listen call and its Stop callers
    srvKind,      \* "tcp" or "udp" (fixed by Init)
    srvPc,        \* position of the goroutine that calls Listen
    srvRunning,   \* Server.running
    srvCtxDone,   \* Server.ctx is canceled
    srvStopped,   \* close(s.stopped) was executed
    srvStopOnce,  \* Server.stopOnce: "new", "running", "done"
    srvWg,        \* counter of Server.wg: control loops of its connections
    srvAccepts,   \* connections started so far
    stopHooks,    \* dispatches of the server's stop hook
    stopPc,       \* position of every Stop caller
    cfgIdle,      \* cfg.IdleTimeout of the server, in clock units (fixed by Init)
    reapIdle,     \* the argument of Server.reaper
    reapPc,       \* position of the udp server's reaper goroutine
    \* one AtomicBucket and the goroutines that call Allow on it
    bclock,       \* time.Now() of the bucket's run, in clock units since NewAtomicBucket
    tokens,       \* AtomicBucket.tokens
    lastRefill,   \* AtomicBucket.lastRefill
    apc,          \* position of every Allow caller
    anow,         \* per caller: its local now
    anew,         \* per caller: its local newTokens
    allows,       \* Allow calls started so far
    granted,      \* history: per clock instant, the Allow calls that returned true then
    \* one RateLimitHandler
    lclock,       \* time.Now() of the limiter's run, in clock units
    connBuckets,  \* connBuckets: per connection id its bucket, or NoBucket
    global,       \* the global bucket
    limit,        \* the limit handler: "nil", "return" or "next" (fixed by Init)
    lastCall,     \* history: what the latest call of the handler did
    \* one RouterHandler
    callsNext,    \* per user handler: whether it calls its next (fixed by Init)
    notFound,     \* Router.notFound: a chain, or NoChain (fixed by Init)
    lastReq,      \* history: what the resolver returned in the latest call
    trace,        \* history: the handlers the latest call ran, in order
    \* one lruCache
    lru,          \* [ll: the recency list, front first; cache: the keys of the map]
    stamp,        \* history: per key, the number of the call that last touched it
    lruOps,       \* history: calls made so far
    lastOp,       \* history: the latest call, the key it evicted, the key least recently touched
    \* one Router: its trie, its cache, the goroutines in insert and in Match
    kids,         \* per trie node (a path): Node.children, [id: the pointer, keys: the map's keys]
    vals,         \* per trie node: Node.value (0: nil)
    cells,        \* maps published so far
    rcache,       \* Router.cache
    ipc,          \* position of every inserter
    ipath,        \* per inserter: the parts of its route's path
    icur,         \* per inserter: parts walked so far
    imap,         \* per inserter: its local children
    iold,         \* history: per inserter, the value its store replaced
    spurious,     \* history: a compare-and-swap failed on a pointer nobody had changed
    inserted,     \* history: the paths whose insert has returned
    mpc,          \* position of every matcher
    mpath,        \* per matcher: the path it looks up
    mcur,         \* per matcher: parts walked so far
    mres,         \* per matcher: the route it found (0: none)
    mcalls,       \* per matcher: Match calls made
    seen          \* history: per matcher, what the trie held for its path during the call

onceVars == <<startOnce, closeOnce>>
chanVars == <<sendCh, sendChCloses, closedCloses>>
wgVars == <<Wg, outerWg>>
transVars == <<launched, tStarts, tStops>>
hookVars == <<hooks, writeHooks, early, late>>
histVars == <<enq, deq, written>>
sendVars == <<sendRes, sendAt>>
callVars == <<quota, calls, sendCap>>
VARIABLES
    setsPayload,  \* per configured handler: the SetPayload it makes (fixed by Init)
    lastMsg,      \* the latest decoded message given to the chain
    ran,          \* history: the handlers the chain ran for it, in order
    hooked,       \* history: the payloads the message hook got for it
    panicked      \* history: whether the error hook got a recovered panic for it

chainVars == <<setsPayload, lastMsg, ran, hooked, panicked>>
VARIABLES
    poolClosed,   \* workerPool.closed
    poolLen,      \* len(workerPool.tasks)
    subPc,        \* per dispatching goroutine: where it is in SubmitTask
    depth         \* per dispatching goroutine: nested calls of SubmitTask

poolVars == <<poolClosed, poolLen, subPc, depth>>
udpVars == <<connMap, ust, keyOf, recvq, arrived, lastRecv, dp, rp, stale>>
recvVars == <<mem, readBuf, tasks, delivered, stream, framer, yielded, decoder, readHooks, errHooks>>
idleVars == <<now, last, nextTick, idleNotified, idleHooks, idleSent, idleArmed, idleMissed,
              idleRepeat>>
srvVars == <<srvKind, srvPc, srvRunning, srvCtxDone, srvStopped, srvStopOnce, srvWg, srvAccepts,
             stopHooks, stopPc, cfgIdle, reapIdle, reapPc>>
bucketVars == <<bclock, tokens, lastRefill, apc, anow, anew, allows, granted>>
pipeVars == <<lclock, connBuckets, global, limit, lastCall>>
routeVars == <<callsNext, notFound, lastReq, trace>>
lruVars == <<lru, stamp, lruOps, lastOp>>
trieVars == <<kids, vals, cells, rcache, ipc, ipath, icur, imap, iold, spurious, inserted,
              mpc, mpath, mcur, mres, mcalls, seen>>
VARIABLES
    mw,           \* per group: RouterGroup.middleware
    cacheValid,   \* per group: RouterGroup.cacheValid
    cached,       \* per group: RouterGroup.cachedHandlers
    mu,           \* per group: RouterGroup.mu, its writer (0: none)
    upc,          \* per Use caller: where it is in Use
    ugroup,       \* per Use caller: the group it calls Use on
    hpc,          \* per Handlers caller: where it is in Handlers
    hgroup,       \* per Handlers caller: the group it calls Handlers on
    hcur,         \* per Handlers caller: the local current (0: nil)
    combined,     \* per Handlers caller: the local combined
    hret,         \* per Handlers caller: what its latest call returned
    hcalls        \* per Handlers caller: the calls it has made

groupVars == <<mw, cacheValid, cached, mu, upc, ugroup, hpc, hgroup, hcur, combined, hret, hcalls>>

VARIABLES
    jobs,         \* the tasks in the pool queue of the frame path, oldest first
    submitted,    \* the frames Recv has submitted a task for, as a count
    processed,    \* history: the frames whose task has run
    raised,       \* history: per frame, the value its chain panicked with (0: none)
    reported      \* history: the panic values the error hook was called with, per frame

panicVars == <<jobs, submitted, processed, raised, reported>>

VARIABLES
    npc,          \* where the inbound loop of the stream transport is
    nread,        \* the n and err of its latest raw.Read
    nlog,         \* history: what the loop has done, in order
    ndone,        \* whether the scope of its connection is canceled
    nreads        \* the reads it has made

readerVars == <<npc, nread, nlog, ndone, nreads>>

VARIABLES
    ptasks,       \* workerPool.tasks: the queued tasks, oldest first
    curWorkers,   \* workerPool.curWorkers
    wst,          \* per worker goroutine: "none", "waiting", "running", "exiting"
    wtask,        \* per worker goroutine: the task it runs (0: none)
    spc,          \* per submitter: where it is in Submit
    stask,        \* per submitter: the task it submits
    issued,       \* the tasks handed to Submit, as a count
    accepted,     \* history: the tasks for which Submit returned true
    executed      \* history: the tasks a worker has run

workerVars == <<ptasks, curWorkers, wst, wtask, spc, stask, issued, accepted, executed>>

VARIABLES
    fcfg,         \* the parameters of the LengthFieldFramer in the call
    fin,          \* the buf the framer is called with
    fpos,         \* where the local buf of its loop begins within fin
    fout,         \* the frames appended so far, as (start, len) within fin
    fpc,          \* "idle", "loop", "returned", "panic", "spinning"
    frounds       \* the rounds of the loop so far

framingVars == <<fcfg, fin, fpos, fout, fpc, frounds>>

VARIABLES
    mcurrent,     \* Machine.cur
    epoch,        \* Machine.epoch
    snap,         \* Machine.snap: the Snapshot, its State and Epoch
    lastCmd       \* history: the latest call, the state it found and its result

machineVars == <<mcurrent, epoch, snap, lastCmd>>

auxVars == <<udpVars, recvVars, idleVars, srvVars, bucketVars, pipeVars, routeVars, lruVars, trieVars, chainVars, poolVars, groupVars, panicVars, readerVars, workerVars, framingVars, machineVars>>

connVars == <<pc, callVars, active, ctxDone, cur, onceVars, chanVars, wgVars, transVars, hookVars,
          histVars, sendVars>>
vars == <<connVars, auxVars>>

NoFrame == <<>>

(***************************************************************************)
(* GenericEncoder on an integer message: its decimal digits as bytes.      *)
(***************************************************************************)
GenericEncoder(msg) ==
    IF msg < 10 THEN <<48 + msg>> ELSE <<48 + (msg \div 10), 48 + (msg % 10)>>

\* The message of a Send call: the caller's index and the number of the call.
MsgOf(p) == 10 * p[2] + calls[p]

\* A chunk returned by a socket read (its content plays no part in the engine).
Chunk == <<65>>

HookKinds == {"connect", "close", "error", "send", "write", "read", "message"}

Ev(kind, buf, err) == [kind |-> kind, buf |-> buf, err |-> err]

dispatchConnect == Ev("connect", NoFrame, "nil")
dispatchClose == Ev("close", NoFrame, "nil")
dispatchError(err) == Ev("error", NoFrame, err)
dispatchSend(msg) == Ev("send", msg, "nil")
\* A write hook that loses the write error.
dispatchWriteNoErr(buf, err) == Ev("write", buf, "nil")

dispatchWrite(buf, err) == Ev("write", buf, err)
dispatchRead(buf, err) == Ev("read", buf, err)
\* Recv submits one decode-and-dispatch task per frame; the task ends in the
\* message hook.
frameTask(frame) == Ev("message", frame, "nil")

sendChClosed == sendChCloses > 0
closedSignalled == closedCloses > 0

\* c.IsActive()
IsActive == active

\* A call of p has returned and p is between calls or through with them.
Returned(p) == calls[p] > 0 /\ pc[p] \in {"idle", "done"}

\* A reference to the connection is in user hands: Start has returned to the
\* creator (Dial returns the connection) or a hook carrying it was dispatched.
Published == startOnce = "done" \/ \E k \in HookKinds : hooks[k] > 0

\* The state after NewConn.
InitConn ==
    /\ pc = [p \in Procs |-> IF p \in Loops THEN "none" ELSE "idle"]
    /\ calls = [p \in Callers |-> 0]
    /\ startOnce = "new"
    /\ closeOnce = "new"
    /\ active = FALSE
    /\ ctxDone = FALSE
    /\ cur = NoFrame
    /\ sendCh = <<>>
    /\ sendChCloses = 0
    /\ closedCloses = 0
    /\ Wg = 0
    /\ outerWg = 0
    /\ launched = [l \in Loops |-> 0]
    /\ tStarts = 0
    /\ tStops = 0
    /\ hooks = [k \in HookKinds |-> 0]
    /\ writeHooks = <<>>
    /\ early = FALSE
    /\ late = FALSE
    /\ enq = <<>>
    /\ deq = <<>>
    /\ written = <<>>
    /\ sendRes = [p \in Senders |-> "none"]
    /\ sendAt = [p \in Senders |-> "none"]


(***************************************************************************)
(* Library semantics used by the engine.                                   *)
(***************************************************************************)
\* A Once that lets a caller in while f is still running.
OnceEnterRacy(once) == once # "done"

\* sync.Once.Do: the first caller runs f; the others wait for f to return.
OnceEnter(once) == once = "new"
OnceReturn(once) == once = "done"

\* A queue that hands out the newest value first.
ChanSendFront(ch, v) == <<v>> \o ch

\* ch <- v on a buffered channel (the value joins the tail).
ChanSend(ch, v) == Append(ch, v)
\* <-ch (the oldest value leaves).
ChanHead(ch) == Head(ch)
ChanRest(ch) == Tail(ch)

\* The Send callers parked in their select on the full queue and not woken by
\* the cancellation of the scope.
Parked == {p \in Senders : pc[p] = "x_blocked" /\ ~ctxDone}

\* A receive from sendCh takes the oldest frame; with a sender parked on the
\* full channel, the receive moves that sender's frame into the freed slot and
\* wakes the sender in its send case.  pcs: the positions after the receive.
ChanRecv(pcs) ==
    IF Parked = {}
    THEN /\ sendCh' = ChanRest(sendCh)
         /\ enq' = enq
         /\ pc' = pcs
    ELSE \E p \in Parked :
            /\ sendCh' = ChanSend(ChanRest(sendCh), GenericEncoder(MsgOf(p)))
            /\ enq' = Append(enq, GenericEncoder(MsgOf(p)))
            /\ pc' = [pcs EXCEPT ![p] = "x_hook"]

\* The callers of one method are interchangeable, so they are numbered in the
\* order in which they invoke it: a caller invokes its n-th call after the
\* callers with a lower number have invoked their n-th.
InOrder(p) == \A q \in Callers : (q[1] = p[1] /\ q[2] < p[2]) => calls[q] > calls[p]

\* Caller p invokes its next call.
Invoke(p) ==
    /\ pc[p] = "idle"
    /\ calls[p] < quota[p]
    /\ InOrder(p)
    /\ calls' = [calls EXCEPT ![p] = @ + 1]
    /\ quota' = quota
    /\ sendCap' = sendCap

\* Where caller p stands after a call has returned.
AfterCall(p, made) == IF made < quota[p] THEN "idle" ELSE "done"

Goto(p, loc) == pc' = [pc EXCEPT ![p] = loc]

RECURSIVE CountOf(_, _)
CountOf(evs, k) ==
    IF evs = <<>> THEN 0
    ELSE (IF Head(evs).kind = k THEN 1 ELSE 0) + CountOf(Tail(evs), k)

RECURSIVE WritesOf(_)
WritesOf(evs) ==
    IF evs = <<>> THEN <<>>
    ELSE (IF Head(evs).kind = "write" THEN <<<<Head(evs).buf, Head(evs).err>>>> ELSE <<>>)
         \o WritesOf(Tail(evs))

KindsOf(evs) == {evs[i].kind : i \in 1..Len(evs)}

Uncounted == {"read", "message"}

\* c.SubmitTask(task) for the hook events evs, in order.  The connect and the
\* close hook are each dispatched by a call of their own.
Post(evs) ==
    /\ hooks' = [k \in HookKinds |->
           IF k \in Uncounted
           THEN (IF hooks[k] + CountOf(evs, k) > 0 THEN 1 ELSE 0)
           ELSE hooks[k] + CountOf(evs, k)]
    /\ writeHooks' = writeHooks \o WritesOf(evs)
    /\ early' = (early \/ (hooks["connect"] = 0 /\ KindsOf(evs) \cap Uncounted # {}))
    /\ late' = (late \/ (hooks["close"] > 0 /\ evs # <<>>))

(***************************************************************************)
(* Conn.Start                                                              *)
(***************************************************************************)
\* startOnce.Do entered by the first caller: go c.mainLoop(wg); go c.writeLoop()
StartLaunch(p) ==
    /\ Invoke(p)
    /\ OnceEnter(startOnce)
    /\ startOnce' = "running"
    /\ launched' = [launched EXCEPT ![MainId] = @ + 1, ![WriterId] = @ + 1]
    /\ pc' = [pc EXCEPT ![p] = "s_transport", ![MainId] = "m_init", ![WriterId] = "w_init"]
    /\ UNCHANGED <<auxVars, closeOnce, active, ctxDone, cur, chanVars, wgVars, tStarts, tStops,
                   hookVars, histVars, sendVars>>

\* c.T.Start(c): NETTransport.Start does c.Wg.Add(1) and launches the reader.
StartTransport(p) ==
    /\ pc[p] = "s_transport"
    /\ tStarts' = tStarts + 1
    /\ Wg' = Wg + 1
    /\ launched' = [launched EXCEPT ![ReaderId] = @ + 1]
    /\ pc' = [pc EXCEPT ![p] = "s_active", ![ReaderId] = "r_check"]
    /\ UNCHANGED <<auxVars, callVars, onceVars, active, ctxDone, cur, chanVars, outerWg, tStops,
                   hookVars, histVars, sendVars>>

\* c.active.Store(true); c.Touch()
StartActive(p) ==
    /\ pc[p] = "s_active"
    /\ active' = TRUE
    /\ Goto(p, "s_connect")
    /\ UNCHANGED <<auxVars, callVars, onceVars, ctxDone, cur, chanVars, wgVars, transVars, hookVars,
                   histVars, sendVars>>

\* c.dispatchConnect(); f returns, the Once is done
StartConnect(p) ==
    /\ pc[p] = "s_connect"
    /\ Post(<<dispatchConnect>>)
    /\ startOnce' = "done"
    /\ Goto(p, AfterCall(p, calls[p]))
    /\ UNCHANGED <<auxVars, callVars, closeOnce, active, ctxDone, cur, chanVars, wgVars, transVars,
                   histVars, sendVars>>

\* A Start call that finds the Once done returns at once.
StartReturn(p) ==
    /\ Invoke(p)
    /\ OnceReturn(startOnce)
    /\ Goto(p, AfterCall(p, calls[p] + 1))
    /\ UNCHANGED <<auxVars, onceVars, active, ctxDone, cur, chanVars, wgVars, transVars, hookVars,
                   histVars, sendVars>>

\* The Start call that runs the Once's function.
StartFirst(p) ==
    \/ StartLaunch(p)
    \/ StartTransport(p)
    \/ StartActive(p)
    \/ StartConnect(p)

Start(p) ==
    \/ StartFirst(p)
    \/ StartReturn(p)

(***************************************************************************)
(* Cancellation of the scope from outside the connection: the parent       *)
(* (server or client) context is canceled.                                 *)
(***************************************************************************)
ParentCancel ==
    /\ ~ctxDone
    /\ ctxDone' = TRUE
    /\ UNCHANGED <<auxVars, pc, callVars, onceVars, active, cur, chanVars, wgVars, transVars, hookVars,
                   histVars, sendVars>>

(***************************************************************************)
(* Conn.Close                                                              *)
(***************************************************************************)
\* closeOnce.Do entered by the first caller: c.Cancel()
CloseCancel(p) ==
    /\ Invoke(p)
    /\ Published
    /\ OnceEnter(closeOnce)
    /\ closeOnce' = "running"
    /\ ctxDone' = TRUE
    /\ Goto(p, "c_wait")
    /\ UNCHANGED <<auxVars, startOnce, active, cur, chanVars, wgVars, transVars, hookVars,
                   histVars, sendVars>>

\* A Close that dispatches the close hook itself once the connection is closed.
CloseSignalledDispatching(p) ==
    /\ pc[p] = "c_wait"
    /\ closedSignalled
    /\ closeOnce' = "done"
    /\ Post(<<dispatchClose>>)
    /\ Goto(p, AfterCall(p, calls[p]))
    /\ UNCHANGED <<auxVars, callVars, startOnce, active, ctxDone, cur, chanVars, wgVars, transVars,
                   histVars, sendVars>>

\* select { case <-c.closed: ... }: the closed channel is signalled; f returns
CloseSignalled(p) ==
    /\ pc[p] = "c_wait"
    /\ closedSignalled
    /\ closeOnce' = "done"
    /\ Goto(p, AfterCall(p, calls[p]))
    /\ UNCHANGED <<auxVars, callVars, startOnce, active, ctxDone, cur, chanVars, wgVars, transVars,
                   hookVars, histVars, sendVars>>

\* select { ... case <-time.After(5 * time.Second): c.Log.Warn(...) }; f returns
CloseTimeout(p) ==
    /\ pc[p] = "c_wait"
    /\ ~closedSignalled
    /\ closeOnce' = "done"
    /\ Goto(p, AfterCall(p, calls[p]))
    /\ UNCHANGED <<auxVars, callVars, startOnce, active, ctxDone, cur, chanVars, wgVars, transVars,
                   hookVars, histVars, sendVars>>

\* A Close call that finds the Once done returns at once.
CloseReturn(p) ==
    /\ Invoke(p)
    /\ Published
    /\ OnceReturn(closeOnce)
    /\ Goto(p, AfterCall(p, calls[p] + 1))
    /\ UNCHANGED <<auxVars, onceVars, active, ctxDone, cur, chanVars, wgVars, transVars, hookVars,
                   histVars, sendVars>>

\* The Close call that runs the Once's function.
CloseFirst(p) ==
    \/ CloseCancel(p)
    \/ CloseSignalled(p)
    \/ CloseTimeout(p)

Close(p) ==
    \/ CloseCancel(p)
    \/ CloseSignalled(p)
    \/ CloseTimeout(p)
    \/ CloseReturn(p)

(***************************************************************************)
(* Conn.Send                                                               *)
(***************************************************************************)
\* if !c.IsActive() { return net.ErrClosed }; buf, err := c.encoder(c, msg)
SendCheck(p) ==
    /\ Invoke(p)
    /\ Published
    /\ IF ~IsActive
       THEN /\ sendRes' = [sendRes EXCEPT ![p] = "closed"]
            /\ sendAt' = sendAt
            /\ Goto(p, AfterCall(p, calls[p] + 1))
       ELSE /\ sendRes' = sendRes
            /\ sendAt' = [sendAt EXCEPT ![p] = IF ctxDone THEN "canceled" ELSE "live"]
            /\ Goto(p, "x_select")
    /\ UNCHANGED <<auxVars, onceVars, active, ctxDone, cur, chanVars, wgVars, transVars, hookVars,
                   histVars>>

\* select: case <-c.Ctx.Done(): return net.ErrClosed
SendCanceled(p) ==
    /\ pc[p] = "x_select"
    /\ ctxDone
    /\ sendRes' = [sendRes EXCEPT ![p] = "closed"]
    /\ sendAt' = [sendAt EXCEPT ![p] = "none"]
    /\ Goto(p, AfterCall(p, calls[p]))
    /\ UNCHANGED <<auxVars, callVars, onceVars, active, ctxDone, cur, chanVars, wgVars, transVars, hookVars,
                   histVars>>

\* select: case c.sendCh <- buf, the channel open with a free slot
SendEnqueue(p) ==
    /\ pc[p] = "x_select"
    /\ ~sendChClosed
    /\ Len(sendCh) < sendCap
    /\ sendCh' = ChanSend(sendCh, GenericEncoder(MsgOf(p)))
    /\ enq' = Append(enq, GenericEncoder(MsgOf(p)))
    /\ Goto(p, "x_hook")
    /\ UNCHANGED <<auxVars, callVars, onceVars, active, ctxDone, cur, sendChCloses, closedCloses, wgVars,
                   transVars, hookVars, deq, written, sendVars>>

\* select: case c.sendCh <- buf picked with the channel closed: the send
\* panics ("send on closed channel"); Send does not return.
SendPanic(p) ==
    /\ pc[p] = "x_select"
    /\ sendChClosed
    /\ sendRes' = [sendRes EXCEPT ![p] = "panic"]
    /\ sendAt' = [sendAt EXCEPT ![p] = "none"]
    /\ Goto(p, AfterCall(p, calls[p]))
    /\ UNCHANGED <<auxVars, callVars, onceVars, active, ctxDone, cur, chanVars, wgVars, transVars, hookVars,
                   histVars>>

\* select with no case ready (the scope not canceled, the queue full): the
\* caller parks on both channels.
SendBlock(p) ==
    /\ pc[p] = "x_select"
    /\ ~ctxDone
    /\ ~sendChClosed
    /\ Len(sendCh) >= sendCap
    /\ Goto(p, "x_blocked")
    /\ UNCHANGED <<auxVars, callVars, onceVars, active, ctxDone, cur, chanVars, wgVars, transVars, hookVars,
                   histVars, sendVars>>

\* A parked caller that takes the queue's next free slot although the
\* cancellation woke it.
SendWakeRacy(p) ==
    /\ pc[p] = "x_blocked"
    /\ ctxDone
    /\ ~sendChClosed
    /\ Len(sendCh) < sendCap
    /\ sendCh' = ChanSend(sendCh, GenericEncoder(MsgOf(p)))
    /\ enq' = Append(enq, GenericEncoder(MsgOf(p)))
    /\ Goto(p, "x_hook")
    /\ UNCHANGED <<auxVars, callVars, onceVars, active, ctxDone, cur, sendChCloses, closedCloses, wgVars,
                   transVars, hookVars, deq, written, sendVars>>

\* The parked caller was woken by the cancellation: case <-c.Ctx.Done():
\* return net.ErrClosed
SendWake(p) ==
    /\ pc[p] = "x_blocked"
    /\ ctxDone
    /\ sendRes' = [sendRes EXCEPT ![p] = "closed"]
    /\ sendAt' = [sendAt EXCEPT ![p] = "none"]
    /\ Goto(p, AfterCall(p, calls[p]))
    /\ UNCHANGED <<auxVars, callVars, onceVars, active, ctxDone, cur, chanVars, wgVars, transVars, hookVars,
                   histVars>>

\* c.dispatchSend(msg); return nil
SendHook(p) ==
    /\ pc[p] = "x_hook"
    /\ Post(<<dispatchSend(MsgOf(p))>>)
    /\ sendRes' = [sendRes EXCEPT ![p] = "ok"]
    /\ sendAt' = [sendAt EXCEPT ![p] = "none"]
    /\ Goto(p, AfterCall(p, calls[p]))
    /\ UNCHANGED <<auxVars, callVars, onceVars, active, ctxDone, cur, chanVars, wgVars, transVars, histVars>>

Send(p) ==
    \/ SendCheck(p)
    \/ SendCanceled(p)
    \/ SendEnqueue(p)
    \/ SendPanic(p)
    \/ SendHook(p)

\* The steps of a Send call that finds the queue full.
SendWait(p) ==
    \/ SendBlock(p)
    \/ SendWake(p)

(***************************************************************************)
(* Conn.mainLoop (the control loop).  TickInterval and IdleTimeout are 0   *)
(* (the defaults), so the select has the cancellation case only.           *)
(***************************************************************************)
\* wg.Add(1)
MainInit ==
    /\ pc[MainId] = "m_init"
    /\ outerWg' = outerWg + 1
    /\ Goto(MainId, "m_select")
    /\ UNCHANGED <<auxVars, callVars, onceVars, active, ctxDone, cur, chanVars, Wg, transVars, hookVars,
                   histVars, sendVars>>

\* The control loop closing the queue without waiting for the cancellation.
MainCancelEager ==
    /\ pc[MainId] = "m_select"
    /\ sendChCloses' = sendChCloses + 1
    /\ Goto(MainId, "m_wait")
    /\ UNCHANGED <<auxVars, callVars, onceVars, active, ctxDone, cur, sendCh, closedCloses, wgVars,
                   transVars, hookVars, histVars, sendVars>>

\* A control loop that leaves the queue open when the scope is canceled.
MainCancelNoClose ==
    /\ pc[MainId] = "m_select"
    /\ ctxDone
    /\ Goto(MainId, "m_wait")
    /\ UNCHANGED <<auxVars, callVars, onceVars, active, ctxDone, cur, chanVars, wgVars,
                   transVars, hookVars, histVars, sendVars>>

\* case <-c.Ctx.Done(): close(c.sendCh)
MainCancel ==
    /\ pc[MainId] = "m_select"
    /\ ctxDone
    /\ sendChCloses' = sendChCloses + 1
    /\ Goto(MainId, "m_wait")
    /\ UNCHANGED <<auxVars, callVars, onceVars, active, ctxDone, cur, sendCh, closedCloses, wgVars,
                   transVars, hookVars, histVars, sendVars>>

\* c.Wg.Wait() returns; return; deferred: wg.Done()
MainWait ==
    /\ pc[MainId] = "m_wait"
    /\ Wg = 0
    /\ outerWg' = outerWg - 1
    /\ Goto(MainId, "m_stop")
    /\ UNCHANGED <<auxVars, callVars, onceVars, active, ctxDone, cur, chanVars, Wg, transVars, hookVars,
                   histVars, sendVars>>

\* deferred: c.T.Stop(c)
MainStop ==
    /\ pc[MainId] = "m_stop"
    /\ tStops' = tStops + 1
    /\ Goto(MainId, "m_hook")
    /\ UNCHANGED <<auxVars, callVars, onceVars, active, ctxDone, cur, chanVars, wgVars, launched, tStarts,
                   hookVars, histVars, sendVars>>

\* deferred: c.dispatchClose()
MainCloseHook ==
    /\ pc[MainId] = "m_hook"
    /\ Post(<<dispatchClose>>)
    /\ Goto(MainId, "m_signal")
    /\ UNCHANGED <<auxVars, callVars, onceVars, active, ctxDone, cur, chanVars, wgVars, transVars, histVars,
                   sendVars>>

\* deferred: close(c.closed)
MainSignal ==
    /\ pc[MainId] = "m_signal"
    /\ closedCloses' = closedCloses + 1
    /\ Goto(MainId, "done")
    /\ UNCHANGED <<auxVars, callVars, onceVars, active, ctxDone, cur, sendCh, sendChCloses, wgVars,
                   transVars, hookVars, histVars, sendVars>>

mainLoop ==
    \/ MainInit
    \/ MainCancel
    \/ MainWait
    \/ MainStop
    \/ MainCloseHook
    \/ MainSignal

(***************************************************************************)
(* Conn.writeLoop                                                          *)
(***************************************************************************)
\* What NETTransport.Write can return: the socket's error verbatim; once Stop
\* has closed the socket (raw == nil) only net.ErrClosed.
WriteErrors == IF tStops > 0 THEN {"closed"} ELSE {"nil", "closed", "other"}

\* c.Wg.Add(1)
WriterInit ==
    /\ pc[WriterId] = "w_init"
    /\ Wg' = Wg + 1
    /\ Goto(WriterId, "w_recv")
    /\ UNCHANGED <<auxVars, callVars, onceVars, active, ctxDone, cur, chanVars, outerWg, transVars, hookVars,
                   histVars, sendVars>>

\* for buf := range c.sendCh: a frame is received
WriterDequeue ==
    /\ pc[WriterId] = "w_recv"
    /\ sendCh # <<>>
    /\ cur' = ChanHead(sendCh)
    /\ deq' = Append(deq, ChanHead(sendCh))
    /\ ChanRecv([pc EXCEPT ![WriterId] = "w_write"])
    /\ UNCHANGED <<auxVars, callVars, onceVars, active, ctxDone, sendChCloses, closedCloses, wgVars,
                   transVars, hookVars, written, sendVars>>

\* err := c.T.Write(c, buf); c.Touch(); c.dispatchWrite(buf, err);
\* errors.Is(err, net.ErrClosed) decides between the drain and the next frame
WriterWrite ==
    /\ pc[WriterId] = "w_write"
    /\ \E err \in WriteErrors :
          /\ written' = Append(written, <<cur, err>>)
          /\ Post(<<dispatchWrite(cur, err)>>)
          /\ Goto(WriterId, IF err = "closed" THEN "w_drain" ELSE "w_recv")
    /\ cur' = NoFrame
    /\ UNCHANGED <<auxVars, callVars, onceVars, active, ctxDone, chanVars, wgVars, transVars, enq, deq,
                   sendVars>>

\* for range c.sendCh {}: a queued frame is received and dropped
WriterDrain ==
    /\ pc[WriterId] = "w_drain"
    /\ sendCh # <<>>
    /\ deq' = Append(deq, ChanHead(sendCh))
    /\ ChanRecv(pc)
    /\ UNCHANGED <<auxVars, callVars, onceVars, active, ctxDone, cur, sendChCloses, closedCloses, wgVars,
                   transVars, hookVars, written, sendVars>>

\* the drain ends on the closed, empty channel: c.Cancel(); break; deferred c.Wg.Done()
WriterDrainExit ==
    /\ pc[WriterId] = "w_drain"
    /\ sendCh = <<>>
    /\ sendChClosed
    /\ ctxDone' = TRUE
    /\ Wg' = Wg - 1
    /\ Goto(WriterId, "done")
    /\ UNCHANGED <<auxVars, callVars, onceVars, active, cur, chanVars, outerWg, transVars, hookVars,
                   histVars, sendVars>>

\* the range ends on the closed, empty channel; deferred c.Wg.Done()
WriterExit ==
    /\ pc[WriterId] = "w_recv"
    /\ sendCh = <<>>
    /\ sendChClosed
    /\ Wg' = Wg - 1
    /\ Goto(WriterId, "done")
    /\ UNCHANGED <<auxVars, callVars, onceVars, active, ctxDone, cur, chanVars, outerWg, transVars, hookVars,
                   histVars, sendVars>>

writeLoop ==
    \/ WriterInit
    \/ WriterDequeue
    \/ WriterWrite
    \/ WriterDrain
    \/ WriterDrainExit
    \/ WriterExit

(***************************************************************************)
(* NETTransport.Start: the inbound delivery goroutine                      *)
(***************************************************************************)
\* Conn.Recv with the default pass-through framer: c.Touch(), the read hook
\* with the chunk, then one decode task for the single frame.
RecvRaw(chunk) == <<dispatchRead(chunk, "nil"), frameTask(chunk)>>

\* The inbound delivery has been launched and has not returned.
readerUp == pc[ReaderId] \in {"r_check", "r_read"}

\* select { case <-c.Context().Done(): return; default: }; deferred c.Wg.Done()
ReaderCheck ==
    /\ pc[ReaderId] = "r_check"
    /\ IF ctxDone
       THEN /\ Wg' = Wg - 1
            /\ Goto(ReaderId, "done")
       ELSE /\ Goto(ReaderId, "r_read")
            /\ Wg' = Wg
    /\ UNCHANGED <<auxVars, callVars, onceVars, active, ctxDone, cur, chanVars, outerWg, transVars, hookVars,
                   histVars, sendVars>>

\* n, err := nt.raw.Read(buf): n > 0 goes to Recv first; then closed / EOF
\* cancels and returns, a timeout continues, any other error dispatches the
\* error hook, cancels and returns.
ReaderRead ==
    /\ pc[ReaderId] = "r_read"
    /\ \E n \in {0, 1}, err \in {"nil", "timeout", "eof", "other"} :
          /\ n = 0 => err # "nil"
          /\ Post((IF n > 0 THEN RecvRaw(Chunk) ELSE <<>>)
                  \o (IF err = "other" THEN <<dispatchError(err)>> ELSE <<>>))
          /\ IF err \in {"eof", "other"}
             THEN /\ ctxDone' = TRUE
                  /\ Wg' = Wg - 1
                  /\ Goto(ReaderId, "done")
             ELSE /\ Goto(ReaderId, "r_check")
                  /\ UNCHANGED <<auxVars, ctxDone, Wg>>
    /\ UNCHANGED <<auxVars, callVars, onceVars, active, cur, chanVars, outerWg, launched, tStarts, tStops,
                   histVars, sendVars>>

netReader ==
    \/ ReaderCheck
    \/ ReaderRead

(***************************************************************************)
(* AtomicBucket: the token bucket of the rate limiter.  Every atomic load,  *)
(* store and compare-and-swap loop of Allow is one step of its caller.      *)
(***************************************************************************)
Allowers == 1..NumAllowers

\* NewAtomicBucket(rate, burst) at clock 0
InitBucket ==
    /\ bclock = 0
    /\ tokens = BucketBurst
    /\ lastRefill = 0
    /\ apc = [g \in Allowers |-> "idle"]
    /\ anow = [g \in Allowers |-> 0]
    /\ anew = [g \in Allowers |-> 0]
    /\ allows = 0
    /\ granted = [t \in 0..MaxBucketTime |-> 0]

\* A refill that is not capped by the capacity.
Uncapped(a, b) == b

Min(a, b) == IF a < b THEN a ELSE b

\* newTokens := elapsed * b.refillRate / 1e9
NewTokens(elapsed) == IF elapsed > 0 THEN (elapsed * BucketRate) \div UnitsPerSec ELSE 0

\* Time passes.
BucketTick ==
    /\ bclock < MaxBucketTime
    /\ bclock' = bclock + 1
    /\ UNCHANGED <<connVars, machineVars, framingVars, workerVars, readerVars, panicVars, groupVars, poolVars, chainVars, trieVars, lruVars, routeVars, pipeVars, udpVars, recvVars, idleVars, srvVars, tokens, lastRefill, apc, anow,
                   anew, allows, granted>>

\* Allow: now := time.Now(); last := load(lastRefill); elapsed; newTokens
AllowLoad(g) ==
    /\ apc[g] = "idle"
    /\ allows < MaxAllows
    /\ allows' = allows + 1
    /\ anow' = [anow EXCEPT ![g] = bclock]
    /\ anew' = [anew EXCEPT ![g] = NewTokens(bclock - lastRefill)]
    /\ apc' = [apc EXCEPT ![g] = IF NewTokens(bclock - lastRefill) > 0 THEN "refill" ELSE "take"]
    /\ UNCHANGED <<connVars, machineVars, framingVars, workerVars, readerVars, panicVars, groupVars, poolVars, chainVars, trieVars, lruVars, routeVars, pipeVars, udpVars, recvVars, idleVars, srvVars, bclock, tokens, lastRefill,
                   granted>>

\* Allow: the compare-and-swap loop that adds newTokens, capped by capacity
AllowRefill(g) ==
    /\ apc[g] = "refill"
    /\ tokens' = Min(BucketBurst, tokens + anew[g])
    /\ apc' = [apc EXCEPT ![g] = "store"]
    /\ UNCHANGED <<connVars, machineVars, framingVars, workerVars, readerVars, panicVars, groupVars, poolVars, chainVars, trieVars, lruVars, routeVars, pipeVars, udpVars, recvVars, idleVars, srvVars, bclock, lastRefill, anow, anew,
                   allows, granted>>

\* Allow: atomic.StoreInt64(&b.lastRefill, now)
AllowStore(g) ==
    /\ apc[g] = "store"
    /\ lastRefill' = anow[g]
    /\ apc' = [apc EXCEPT ![g] = "take"]
    /\ UNCHANGED <<connVars, machineVars, framingVars, workerVars, readerVars, panicVars, groupVars, poolVars, chainVars, trieVars, lruVars, routeVars, pipeVars, udpVars, recvVars, idleVars, srvVars, bclock, tokens, anow, anew,
                   allows, granted>>

\* Allow: the compare-and-swap loop that takes one token, or returns false
AllowTake(g) ==
    /\ apc[g] = "take"
    /\ IF tokens <= 0
       THEN UNCHANGED <<tokens, granted>>
       ELSE /\ tokens' = tokens - 1
            /\ granted' = [granted EXCEPT ![bclock] = @ + 1]
    /\ apc' = [apc EXCEPT ![g] = "idle"]
    /\ UNCHANGED <<connVars, machineVars, framingVars, workerVars, readerVars, panicVars, groupVars, poolVars, chainVars, trieVars, lruVars, routeVars, pipeVars, udpVars, recvVars, idleVars, srvVars, bclock, lastRefill, anow, anew,
                   allows>>

Allow(g) ==
    \/ AllowLoad(g)
    \/ AllowRefill(g)
    \/ AllowStore(g)
    \/ AllowTake(g)

(***************************************************************************)
(* RateLimitHandler: one bucket per connection id and one global bucket.   *)
(* One call of the handler is one step; Allow is computed as one caller    *)
(* runs it.                                                                *)
(***************************************************************************)
LimitConns == 1..NumLimitConns
NoBucket == [tokens |-> -1, lastRefill |-> -1]
NoCall == [conn |-> 0, connOk |-> FALSE, globalOk |-> FALSE, limited |-> FALSE,
           next |-> FALSE, limitNext |-> FALSE]

\* NewAtomicBucket(rate, burst) at the time at
NewAtomicBucket(at) == [tokens |-> BucketBurst, lastRefill |-> at]

InitLimit ==
    /\ lclock = 0
    /\ connBuckets = [c \in LimitConns |-> NoBucket]
    /\ global = NewAtomicBucket(0)
    /\ limit \in {"nil", "return", "next"}
    /\ lastCall = NoCall

\* Allow, the refill: tokens and lastRefill after it
Refill(b, at) ==
    IF NewTokens(at - b.lastRefill) > 0
    THEN [tokens |-> Min(BucketBurst, b.tokens + NewTokens(at - b.lastRefill)),
          lastRefill |-> at]
    ELSE b

\* Allow run by one caller at the time at: its result and the bucket after it
AllowAt(b, at) ==
    IF Refill(b, at).tokens <= 0
    THEN [ok |-> FALSE, b |-> Refill(b, at)]
    ELSE [ok |-> TRUE, b |-> [Refill(b, at) EXCEPT !.tokens = @ - 1]]

\* A limiter that asks the connection's bucket only.
LimitedConnOnly(connOk, globalOk) == ~connOk

\* if !tb.Allow() || !global.Allow()
Limited(connOk, globalOk) == ~connOk \/ ~globalOk

\* Time passes.
LimitTick ==
    /\ lclock < MaxBucketTime
    /\ lclock' = lclock + 1
    /\ UNCHANGED <<connVars, machineVars, framingVars, workerVars, readerVars, panicVars, groupVars, poolVars, chainVars, trieVars, lruVars, routeVars, bucketVars, udpVars, recvVars, idleVars, srvVars, connBuckets,
                   global, limit, lastCall>>

\* The handler on a message of connection c: LoadOrStore of c's bucket, the
\* two Allow calls (the second only if the first returned true), then the
\* limit handler or next.
RateLimitHandler(c) ==
    LET tb == IF connBuckets[c] = NoBucket THEN NewAtomicBucket(lclock) ELSE connBuckets[c]
        r1 == AllowAt(tb, lclock)
        r2 == IF r1.ok THEN AllowAt(global, lclock) ELSE [ok |-> FALSE, b |-> global]
        refused == Limited(r1.ok, r2.ok)
    IN /\ connBuckets' = [connBuckets EXCEPT ![c] = r1.b]
       /\ global' = r2.b
       /\ lastCall' = [conn |-> c, connOk |-> r1.ok, globalOk |-> r2.ok,
                       limited |-> refused /\ limit # "nil",
                       next |-> ~refused,
                       limitNext |-> refused /\ limit = "next"]
       /\ UNCHANGED <<connVars, machineVars, framingVars, workerVars, readerVars, panicVars, groupVars, poolVars, chainVars, trieVars, lruVars, routeVars, bucketVars, udpVars, recvVars, idleVars, srvVars, lclock, limit>>

(***************************************************************************)
(* The datagram multiplexer: UDPSession, its pseudo-connections and their  *)
(* UDPTransport.  The udp Server calls Delivery from its one serve         *)
(* goroutine and Reaper from its one reaper goroutine; every               *)
(* pseudo-connection runs its own control loop.                            *)
(***************************************************************************)
Peers == 1..NumPeers
ConnIds == 1..MaxConns
NoConn == 0

InitUDP ==
    /\ connMap = [k \in Peers |-> NoConn]
    /\ ust = [c \in ConnIds |-> "none"]
    /\ keyOf = [c \in ConnIds |-> 0]
    /\ recvq = [c \in ConnIds |-> <<>>]
    /\ arrived = 0
    /\ lastRecv = [c \in ConnIds |-> 0]
    /\ dp = [at |-> "idle", k |-> 0, c |-> NoConn, buf |-> 0]
    /\ rp = [at |-> "idle", k |-> 0, c |-> NoConn]
    /\ stale = [c \in ConnIds |-> FALSE]

\* The pseudo-connections created so far.
Created == {c \in ConnIds : ust[c] # "none"}

\* close(ut.recvCh) was executed.
recvChClosed(c) == ust[c] \in {"stopped", "closed"}

\* A packet of peer k arrives, the next in arrival order: connMap.Load(key).
DeliveryLoad(k) ==
    /\ dp.at = "idle"
    /\ arrived < MaxPackets
    /\ arrived' = arrived + 1
    /\ IF connMap[k] # NoConn
       THEN dp' = [at |-> "push", k |-> k, c |-> connMap[k], buf |-> arrived + 1]
       ELSE /\ Cardinality(Created) < MaxConns
            /\ dp' = [at |-> "store", k |-> k, c |-> NoConn, buf |-> arrived + 1]
    /\ UNCHANGED <<connVars, machineVars, framingVars, workerVars, readerVars, panicVars, groupVars, poolVars, chainVars, trieVars, lruVars, routeVars, pipeVars, srvVars, bucketVars, recvVars, idleVars, lastRecv, stale, connMap, ust, keyOf, recvq, rp>>

\* NewConn, connMap.LoadOrStore(key, uc), and uc.Start(wg) for the winner.
DeliveryStore ==
    /\ dp.at = "store"
    /\ LET uc == Cardinality(Created) + 1
       IN IF connMap[dp.k] # NoConn
          THEN /\ ust' = [ust EXCEPT ![uc] = "discarded"]
               /\ keyOf' = [keyOf EXCEPT ![uc] = dp.k]
               /\ dp' = [dp EXCEPT !.at = "push", !.c = connMap[dp.k]]
               /\ UNCHANGED connMap
          ELSE /\ connMap' = [connMap EXCEPT ![dp.k] = uc]
               /\ ust' = [ust EXCEPT ![uc] = "started"]
               /\ keyOf' = [keyOf EXCEPT ![uc] = dp.k]
               /\ dp' = [dp EXCEPT !.at = "push", !.c = uc]
    /\ UNCHANGED <<connVars, machineVars, framingVars, workerVars, readerVars, panicVars, groupVars, poolVars, chainVars, trieVars, lruVars, routeVars, pipeVars, srvVars, bucketVars, recvVars, idleVars, arrived, lastRecv, stale, recvq, rp>>

\* Time passes without traffic on the started pseudo-connection c: the age of
\* its last activity now exceeds the idle threshold.
UDPAge(c) ==
    /\ ust[c] = "started"
    /\ ~stale[c]
    /\ stale' = [stale EXCEPT ![c] = TRUE]
    /\ UNCHANGED <<connVars, machineVars, framingVars, workerVars, readerVars, panicVars, groupVars, poolVars, chainVars, trieVars, lruVars, routeVars, pipeVars, srvVars, bucketVars, recvVars, idleVars, arrived, lastRecv, connMap, ust, keyOf, recvq, dp, rp>>

\* A send that waits for room in the channel.
BlockingSend(q, buf) == [ready |-> Len(q) < RecvCap, q |-> Append(q, buf)]

\* select { case ut.recvCh <- buf: return; default: } on a channel that
\* holds q: with room the packet is queued, without room the default case
\* runs and the packet is gone.
TrySend(q, buf) == [ready |-> TRUE, q |-> IF Len(q) < RecvCap THEN Append(q, buf) ELSE q]

\* The select of Delivery.  A send on the closed channel panics; the serve
\* goroutine does not survive it.
DeliveryPush ==
    /\ dp.at = "push"
    /\ IF recvChClosed(dp.c)
       THEN /\ dp' = [dp EXCEPT !.at = "panic"]
            /\ UNCHANGED recvq
       ELSE /\ TrySend(recvq[dp.c], dp.buf).ready
            /\ dp' = [at |-> "idle", k |-> 0, c |-> NoConn, buf |-> 0]
            /\ recvq' = [recvq EXCEPT ![dp.c] = TrySend(@, dp.buf).q]
    /\ UNCHANGED <<connVars, machineVars, framingVars, workerVars, readerVars, panicVars, groupVars, poolVars, chainVars, trieVars, lruVars, routeVars, pipeVars, srvVars, bucketVars, recvVars, idleVars, arrived, lastRecv, stale, connMap, ust, keyOf, rp>>

Delivery ==
    \/ \E k \in Peers : DeliveryLoad(k)
    \/ DeliveryStore
    \/ DeliveryPush

\* The Range callback of a sweep on an entry that has been idle for too long:
\* now.Sub(uc.LastActive()) > idle.
ReaperVisit(k) ==
    /\ rp.at = "idle"
    /\ connMap[k] # NoConn
    /\ stale[connMap[k]]
    /\ rp' = [at |-> "delete", k |-> k, c |-> connMap[k]]
    /\ UNCHANGED <<connVars, machineVars, framingVars, workerVars, readerVars, panicVars, groupVars, poolVars, chainVars, trieVars, lruVars, routeVars, pipeVars, srvVars, bucketVars, recvVars, idleVars, arrived, lastRecv, stale, connMap, ust, keyOf, recvq, dp>>

\* us.connMap.Delete(k)
ReaperDelete ==
    /\ rp.at = "delete"
    /\ connMap' = [connMap EXCEPT ![rp.k] = NoConn]
    /\ rp' = [rp EXCEPT !.at = "close"]
    /\ UNCHANGED <<connVars, machineVars, framingVars, workerVars, readerVars, panicVars, groupVars, poolVars, chainVars, trieVars, lruVars, routeVars, pipeVars, srvVars, bucketVars, recvVars, idleVars, arrived, lastRecv, stale, ust, keyOf, recvq, dp>>

\* uc.Close(): the Once's function cancels the scope.
ReaperClose ==
    /\ rp.at = "close"
    /\ ust' = [ust EXCEPT ![rp.c] = IF @ = "started" THEN "canceled" ELSE @]
    /\ rp' = [rp EXCEPT !.at = "wait"]
    /\ UNCHANGED <<connVars, machineVars, framingVars, workerVars, readerVars, panicVars, groupVars, poolVars, chainVars, trieVars, lruVars, routeVars, pipeVars, srvVars, bucketVars, recvVars, idleVars, arrived, lastRecv, stale, connMap, keyOf, recvq, dp>>

\* uc.Close() returns: the closed channel is signalled, or the 5 s are over.
ReaperWait ==
    /\ rp.at = "wait"
    /\ rp' = [at |-> "idle", k |-> 0, c |-> NoConn]
    /\ UNCHANGED <<connVars, machineVars, framingVars, workerVars, readerVars, panicVars, groupVars, poolVars, chainVars, trieVars, lruVars, routeVars, pipeVars, srvVars, bucketVars, recvVars, idleVars, arrived, lastRecv, stale, connMap, ust, keyOf, recvq, dp>>

Reaper ==
    \/ \E k \in Peers : ReaperVisit(k)
    \/ ReaperDelete
    \/ ReaperClose
    \/ ReaperWait

\* The receive goroutine of UDPTransport.Start takes a packet to Recv, which
\* calls Touch.
UDPRecv(c) ==
    /\ ust[c] \in {"started", "canceled"}
    /\ recvq[c] # <<>>
    /\ recvq' = [recvq EXCEPT ![c] = Tail(@)]
    /\ lastRecv' = [lastRecv EXCEPT ![c] = Head(recvq[c])]
    /\ stale' = [stale EXCEPT ![c] = FALSE]
    /\ UNCHANGED <<connVars, machineVars, framingVars, workerVars, readerVars, panicVars, groupVars, poolVars, chainVars, trieVars, lruVars, routeVars, pipeVars, srvVars, bucketVars, recvVars, idleVars, arrived, connMap, ust, keyOf, dp, rp>>

\* The scope of pseudo-connection c is canceled other than by the reaper:
\* its own idle timeout, a handler's Close, the server's scope.
UDPCancel(c) ==
    /\ ust[c] = "started"
    /\ ust' = [ust EXCEPT ![c] = "canceled"]
    /\ UNCHANGED <<connVars, machineVars, framingVars, workerVars, readerVars, panicVars, groupVars, poolVars, chainVars, trieVars, lruVars, routeVars, pipeVars, srvVars, bucketVars, recvVars, idleVars, arrived, lastRecv, stale, connMap, keyOf, recvq, dp, rp>>

\* c's control loop ends: UDPTransport.Stop deletes the entry of c's key and
\* closes recvCh.
UDPStop(c) ==
    /\ ust[c] = "canceled"
    /\ connMap' = [connMap EXCEPT ![keyOf[c]] = NoConn]
    /\ ust' = [ust EXCEPT ![c] = "stopped"]
    /\ recvq' = [recvq EXCEPT ![c] = <<>>]
    /\ UNCHANGED <<connVars, machineVars, framingVars, workerVars, readerVars, panicVars, groupVars, poolVars, chainVars, trieVars, lruVars, routeVars, pipeVars, srvVars, bucketVars, recvVars, idleVars, arrived, lastRecv, stale, keyOf, dp, rp>>

\* c's control loop dispatches the close hook and signals closed.
UDPClosed(c) ==
    /\ ust[c] = "stopped"
    /\ ust' = [ust EXCEPT ![c] = "closed"]
    /\ UNCHANGED <<connVars, machineVars, framingVars, workerVars, readerVars, panicVars, groupVars, poolVars, chainVars, trieVars, lruVars, routeVars, pipeVars, srvVars, bucketVars, recvVars, idleVars, arrived, lastRecv, stale, connMap, keyOf, recvq, dp, rp>>

pseudoConn ==
    \/ \E c \in ConnIds : UDPAge(c)
    \/ \E c \in ConnIds : UDPRecv(c)
    \/ \E c \in ConnIds : UDPCancel(c)
    \/ \E c \in ConnIds : UDPStop(c)
    \/ \E c \in ConnIds : UDPClosed(c)

(***************************************************************************)
(* The Recv path of one connection whose decoder is the RawDecoder and     *)
(* whose framer is one of the bundled framers.  Byte slices are modelled   *)
(* as what they are: a backing array, a start and a length.  The frames a  *)
(* framer returns are slices of readBuf's array.                           *)
(***************************************************************************)
shrinkFactor == 4
Delim == <<10>>

\* FixedLengthFramer(length)
length == 2
\* LengthFieldFramer(0, 4, 0, 4, binary.BigEndian)
lengthFieldOffset == 0
lengthFieldSize == 4
lengthAdjustment == 0
initialBytesToStrip == 4
\* LengthFieldFramer(0, 3, 0, 3, binary.BigEndian): no size of a length field
unsupportedSize == 3

\* The decoders: the RawDecoder, which never fails, and a decoder of the
\* application, which may return an error for a frame.
Decoders == {"raw", "user"}

Framers == {"raw", "delimiter", "fixed", "lengthField"}

\* "PING\nPONG\nPAR", "TIAL\n", "A\n", "B"
Chunks ==
    { <<80, 73, 78, 71, 10, 80, 79, 78, 71, 10, 80, 65, 82>>,
      <<84, 73, 65, 76, 10>>,
      <<65, 10>>,
      <<66>> }

\* 00 00 00 05 "Hello" 00 00 00 03 "AB", "C", 00 00, 00 01 "D"
FieldChunks ==
    { <<0, 0, 0, 5, 72, 101, 108, 108, 111, 0, 0, 0, 3, 65, 66>>,
      <<67>>,
      <<0, 0>>,
      <<0, 1, 68>> }

\* "A", "BC", "DEF"
PlainChunks == { <<65>>, <<66, 67>>, <<68, 69, 70>> }

\* The bundled framers and the length-field framer of the unsupported size.
AllFramers == Framers \cup {"badField"}

\* The chunks a peer of a connection with framer f sends.
ChunksOf(f) ==
    CASE f = "delimiter" -> Chunks
      [] f \in {"lengthField", "badField"} -> FieldChunks
      [] OTHER -> PlainChunks

NilBuf == [arr |-> 0, len |-> 0]

InitRecv ==
    /\ mem = <<>>
    /\ readBuf = NilBuf
    /\ tasks = <<>>
    /\ delivered = <<>>
    /\ stream = <<>>
    /\ framer \in AllFramers
    /\ decoder \in Decoders
    /\ yielded = <<>>
    /\ readHooks = <<>>
    /\ errHooks = <<>>

Max(a, b) == IF a > b THEN a ELSE b

\* make([]byte, n, cap) filled with s
MakeArray(s, cap) == [i \in 1..cap |-> IF i <= Len(s) THEN s[i] ELSE 0]

\* The bytes a slice of array a holds now.
Bytes(m, arr, start, len) ==
    IF len = 0 THEN <<>> ELSE [i \in 1..len |-> m[arr][start + i - 1]]

\* bytes.Buffer.Write(data) on buffer b (nothing is ever read off the buffer,
\* so its read offset is 0): within the capacity the bytes go into the array
\* in place, otherwise the buffer moves to a new, larger array.
BufWrite(m, b, data) ==
    LET n == Len(data)
    IN IF b.arr = 0
       THEN IF n = 0 THEN [mem |-> m, buf |-> b]
            ELSE [mem |-> Append(m, MakeArray(data, Max(SmallBuf, n))),
                  buf |-> [arr |-> Len(m) + 1, len |-> n]]
       ELSE IF b.len + n <= Len(m[b.arr])
            THEN [mem |-> [m EXCEPT ![b.arr] =
                              [i \in 1..Len(@) |->
                                  IF i > b.len /\ i <= b.len + n
                                  THEN data[i - b.len] ELSE @[i]]],
                  buf |-> [b EXCEPT !.len = @ + n]]
            ELSE [mem |-> Append(m, MakeArray(Bytes(m, b.arr, 1, b.len) \o data,
                                              Max(2 * Len(m[b.arr]), b.len + n))),
                  buf |-> [arr |-> Len(m) + 1, len |-> b.len + n]]

\* delim is at position i of buf
DelimAt(buf, i) ==
    /\ i + Len(Delim) - 1 <= Len(buf)
    /\ \A j \in 1..Len(Delim) : buf[i + j - 1] = Delim[j]

\* bytes.Index(buf[from:], delim), as a position of buf; 0: none
Index(buf, from) ==
    IF \E i \in from..Len(buf) : DelimAt(buf, i)
    THEN CHOOSE i \in from..Len(buf) :
            DelimAt(buf, i) /\ \A j \in from..(i - 1) : ~DelimAt(buf, j)
    ELSE 0

\* The loop of DelimiterFramer from position from on: the frames, as
\* (start, length) within buf, and the start of the remaining bytes.
RECURSIVE DelimiterFramer(_, _)
DelimiterFramer(buf, from) ==
    LET idx == Index(buf, from)
    IN IF idx = 0
       THEN [frames |-> <<>>, remaining |-> from]
       ELSE LET more == DelimiterFramer(buf, idx + Len(Delim))
            IN [frames |-> <<[start |-> from, len |-> idx - from]>> \o more.frames,
                remaining |-> more.remaining]

\* RawFramer: the whole of buf is the one frame, remaining is nil
RawFramer(buf) ==
    [frames |-> <<[start |-> 1, len |-> Len(buf)]>>, remaining |-> Len(buf) + 1]

\* The loop of FixedLengthFramer from position from on.
RECURSIVE FixedLengthFramer(_, _)
FixedLengthFramer(buf, from) ==
    IF Len(buf) - from + 1 >= length
    THEN LET more == FixedLengthFramer(buf, from + length)
         IN [frames |-> <<[start |-> from, len |-> length]>> \o more.frames,
             remaining |-> more.remaining]
    ELSE [frames |-> <<>>, remaining |-> from]

\* order.Uint32(fieldBytes), big-endian, of the four bytes of buf from i on
Uint32(buf, i) ==
    ((buf[i] * 256 + buf[i + 1]) * 256 + buf[i + 2]) * 256 + buf[i + 3]

\* The loop of LengthFieldFramer from position from on.
RECURSIVE LengthFieldFramer(_, _)
LengthFieldFramer(buf, from) ==
    IF Len(buf) - from + 1 < lengthFieldOffset + lengthFieldSize
    THEN [frames |-> <<>>, remaining |-> from]
    ELSE LET frameLen == Uint32(buf, from + lengthFieldOffset) + lengthAdjustment
             frameEnd == lengthFieldOffset + lengthFieldSize + frameLen
         IN IF Len(buf) - from + 1 < frameEnd
            THEN [frames |-> <<>>, remaining |-> from]
            ELSE LET more == LengthFieldFramer(buf, from + frameEnd)
                 IN [frames |-> <<[start |-> from + initialBytesToStrip,
                                   len |-> frameEnd - initialBytesToStrip]>> \o more.frames,
                     remaining |-> more.remaining]

\* c.framer(c, buf) of the framer f
Frame(f, buf) ==
    CASE f = "raw" -> RawFramer(buf)
      [] f = "delimiter" -> DelimiterFramer(buf, 1)
      [] f = "fixed" -> FixedLengthFramer(buf, 1)
      [] f = "lengthField" -> LengthFieldFramer(buf, 1)
      [] f = "badField" -> [frames |-> <<>>, remaining |-> 1]

\* A framer that never returns an error.
NoFramerError(f, buf) == FALSE

\* The err of c.framer(c, buf): LengthFieldFramer returns "unsupported
\* lengthFieldSize" once buf holds the length field; no other bundled framer
\* returns an error.
FramerError(f, buf) ==
    f = "badField" /\ Len(buf) >= lengthFieldOffset + unsupportedSize

RawDecoder(buf) == buf

\* Conn.Recv(chunk), under c.rm.  On a framer error the read hook gets the
\* chunk and the error, and Recv returns with the chunk left in readBuf.
Recv(chunk) ==
    /\ Len(stream) < MaxRecvs
    /\ LET w == BufWrite(mem, readBuf, chunk)
           buf == Bytes(w.mem, w.buf.arr, 1, w.buf.len)
           f == Frame(framer, buf)
           rest == Bytes(w.mem, w.buf.arr, f.remaining, Len(buf) - f.remaining + 1)
           kept == IF w.buf.len > ReadBufferSize * shrinkFactor /\ Len(rest) < ReadBufferSize
                   THEN BufWrite(w.mem, NilBuf, rest)
                   ELSE BufWrite(w.mem, [w.buf EXCEPT !.len = 0], rest)
       IN IF FramerError(framer, buf)
          THEN /\ mem' = w.mem
               /\ readBuf' = w.buf
               /\ readHooks' = Append(readHooks, [chunk |-> chunk, err |-> TRUE])
               /\ UNCHANGED <<tasks, yielded>>
          ELSE /\ mem' = kept.mem
               /\ readBuf' = kept.buf
               /\ readHooks' = Append(readHooks, [chunk |-> chunk, err |-> FALSE])
               /\ tasks' = tasks \o [i \in 1..Len(f.frames) |->
                                        [arr |-> w.buf.arr,
                                         start |-> f.frames[i].start,
                                         len |-> f.frames[i].len]]
               /\ yielded' = yielded \o [i \in 1..Len(f.frames) |->
                                            Bytes(w.mem, w.buf.arr, f.frames[i].start, f.frames[i].len)]
    /\ stream' = Append(stream, chunk)
    /\ UNCHANGED <<connVars, machineVars, framingVars, workerVars, readerVars, panicVars, groupVars, poolVars, chainVars, trieVars, lruVars, routeVars, pipeVars, srvVars, bucketVars, udpVars, idleVars,
                   delivered, framer, decoder, errHooks>>

\* What c.decoder(c, fr) may return: a message (TRUE) or an error (FALSE)
DecoderResults(d) == IF d = "raw" THEN {TRUE} ELSE BOOLEAN

\* A pool worker runs the oldest decode task: the decoder reads the frame;
\* its message goes down the chain to the message hook, its error to the
\* error hook.
RunTask ==
    /\ tasks # <<>>
    /\ LET fr == Head(tasks)
       IN \E ok \in DecoderResults(decoder) :
             IF ok
             THEN /\ delivered' = Append(delivered, RawDecoder(Bytes(mem, fr.arr, fr.start, fr.len)))
                  /\ UNCHANGED errHooks
             ELSE /\ errHooks' = Append(errHooks, Bytes(mem, fr.arr, fr.start, fr.len))
                  /\ UNCHANGED delivered
    /\ tasks' = Tail(tasks)
    /\ UNCHANGED <<connVars, machineVars, framingVars, workerVars, readerVars, panicVars, groupVars, poolVars, chainVars, trieVars, lruVars, routeVars, pipeVars, srvVars, bucketVars, udpVars, idleVars,
                   mem, readBuf, stream, framer, yielded, decoder, readHooks>>
(***************************************************************************)
(* The idle check of the control loop of one started connection with a     *)
(* positive idle timeout.  The clock counts clock units (nanoseconds);     *)
(* Touch stores the clock, the idle tick reads it back.                    *)
(***************************************************************************)
\* The clock when the control loop starts: the present, long after 1970.
Epoch == MaxTime + 1

InitIdle ==
    /\ now = Epoch
    /\ last = 0
    /\ nextTick = Epoch + IdleTimeout
    /\ idleNotified = FALSE
    /\ idleHooks = 0
    /\ idleSent = FALSE
    /\ idleArmed = TRUE
    /\ idleMissed = FALSE
    /\ idleRepeat = FALSE

\* time.Unix(sec, nsec): the time, in clock units
Unix(sec, nsec) == sec * UnitsPerSec + nsec

\* Conn.LastActive(): time.Unix(0, c.last.Load())
LastActive == Unix(0, last)

\* The clock advances.
Elapse ==
    /\ now < Epoch + MaxTime
    /\ now' = now + 1
    /\ UNCHANGED <<connVars, machineVars, framingVars, workerVars, readerVars, panicVars, groupVars, poolVars, chainVars, trieVars, lruVars, routeVars, pipeVars, srvVars, bucketVars, udpVars, recvVars, last, nextTick, idleNotified, idleHooks, idleSent,
                   idleArmed, idleMissed, idleRepeat>>

\* Conn.Touch(), called by Start, by Recv and by the write loop:
\* c.last.Store(time.Now().UnixNano())
Touch ==
    /\ last # now
    /\ last' = now
    /\ idleSent' = FALSE
    /\ UNCHANGED <<connVars, machineVars, framingVars, workerVars, readerVars, panicVars, groupVars, poolVars, chainVars, trieVars, lruVars, routeVars, pipeVars, srvVars, bucketVars, udpVars, recvVars, now, nextTick, idleNotified, idleHooks,
                   idleArmed, idleMissed, idleRepeat>>

\* case <-idleCh: of mainLoop
IdleTick ==
    /\ now >= nextTick
    /\ nextTick' = nextTick + IdleTimeout
    /\ LET since == now - Unix(last, 0)
           dispatchIdle == since > IdleTimeout /\ ~idleNotified
           idle == now - LastActive > IdleTimeout
       IN /\ idleNotified' = (since > IdleTimeout)
          /\ idleHooks' = IF dispatchIdle THEN idleHooks + 1 ELSE idleHooks
          /\ idleSent' = (idleSent \/ dispatchIdle)
          /\ idleArmed' = IF dispatchIdle THEN FALSE ELSE (idleArmed \/ ~idle)
          /\ idleMissed' = (idleMissed \/ (last # 0 /\ idle /\ ~idleSent /\ ~dispatchIdle))
          /\ idleRepeat' = (idleRepeat \/ (dispatchIdle /\ ~idleArmed))
    /\ UNCHANGED <<connVars, machineVars, framingVars, workerVars, readerVars, panicVars, groupVars, poolVars, chainVars, trieVars, lruVars, routeVars, pipeVars, srvVars, bucketVars, udpVars, recvVars, now, last>>

(***************************************************************************)
(* The middleware chain of a connection: Config.Handlers followed by the   *)
(* terminal handler NewConn appends.  What a configured handler does is    *)
(* one SetPayload, or none, and then a call of its next, or none.          *)
(***************************************************************************)
\* The terminal handler: hook.OnMessage(ctx.Conn(), ctx.Payload()).
Terminal == 0

\* cfg.Handlers: the first user handlers, in registration order
CfgHandlers == [i \in 1..NumHandlers |-> i]

\* handler.NewChain(cfg.Handlers...) and c.chain.Use(terminal)
NewChain == CfgHandlers \o <<Terminal>>

\* Payloads are a concrete type and a value; NilPayload is the nil interface.
NilPayload == [type |-> "nil", val |-> 0]
Messages == {[type |-> "bytes", val |-> 1], [type |-> "bytes", val |-> 2]}
NoMsg == [type |-> "none", val |-> 0]

\* What a handler passes to SetPayload: nothing ("keep"), a payload of the
\* decoder's type, a payload of another type, or nil.
Sets == {"keep", "same", "other", "nil"}
Replacement(h, set) ==
    CASE set = "same" -> [type |-> "bytes", val |-> 10 + h]
      [] set = "other" -> [type |-> "text", val |-> 10 + h]
      [] set = "nil" -> NilPayload

InitChain ==
    /\ setsPayload \in [1..NumHandlers -> Sets]
    /\ lastMsg = NoMsg
    /\ ran = <<>>
    /\ hooked = <<>>
    /\ panicked = FALSE

\* atomic.Value.Store(p) on a Value that holds old: it panics for nil and
\* for a p whose concrete type is not the type of the first Store.
StorePanics(old, p) == p = NilPayload \/ p.type # old.type

\* A chain in which SetPayload never reaches the context.
RECURSIVE KeepPayload(_, _, _)
KeepPayload(handlers, index, payload) ==
    IF index > Len(handlers)
    THEN [ran |-> <<>>, hooked |-> <<>>, panicked |-> FALSE]
    ELSE IF handlers[index] = Terminal
         THEN [ran |-> <<Terminal>>, hooked |-> <<payload>>, panicked |-> FALSE]
         ELSE IF callsNext[handlers[index]]
              THEN LET more == KeepPayload(handlers, index + 1, payload)
                   IN [more EXCEPT !.ran = <<handlers[index]>> \o @]
              ELSE [ran |-> <<handlers[index]>>, hooked |-> <<>>, panicked |-> FALSE]

\* Chain.Handler, dispatch(index) with the context's payload: the handler at
\* index runs, SetPayload stores into the context, and the next handler is
\* dispatched when the handler calls its next.  A panic unwinds the chain.
RECURSIVE Handler(_, _, _)
Handler(handlers, index, payload) ==
    IF index > Len(handlers)
    THEN [ran |-> <<>>, hooked |-> <<>>, panicked |-> FALSE]
    ELSE LET h == handlers[index]
         IN IF h = Terminal
            THEN [ran |-> <<h>>, hooked |-> <<payload>>, panicked |-> FALSE]
            ELSE IF setsPayload[h] # "keep" /\ StorePanics(payload, Replacement(h, setsPayload[h]))
                 THEN [ran |-> <<h>>, hooked |-> <<>>, panicked |-> TRUE]
                 ELSE IF callsNext[h]
                      THEN LET more == Handler(handlers, index + 1,
                                               IF setsPayload[h] = "keep" THEN payload
                                               ELSE Replacement(h, setsPayload[h]))
                           IN [more EXCEPT !.ran = <<h>> \o @]
                      ELSE [ran |-> <<h>>, hooked |-> <<>>, panicked |-> FALSE]

\* The decode task of Recv after the decoder returned msg: the chain runs on
\* a new context; a panic is recovered and goes to the error hook.
ChainTask(msg) ==
    /\ lastMsg' = msg
    /\ LET r == IF StorePanics(msg, msg)
                THEN [ran |-> <<>>, hooked |-> <<>>, panicked |-> TRUE]
                ELSE Handler(NewChain, 1, msg)
       IN /\ ran' = r.ran
          /\ hooked' = r.hooked
          /\ panicked' = r.panicked
    /\ UNCHANGED <<connVars, machineVars, framingVars, workerVars, readerVars, panicVars, groupVars, poolVars, udpVars, recvVars, idleVars, srvVars, bucketVars, pipeVars, routeVars,
                   lruVars, trieVars, setsPayload>>
(***************************************************************************)
(* One call of the framer LengthFieldFramer returns, a round of its loop a *)
(* step.  The parameter settings are the three examples of its             *)
(* documentation and the one in which the length counts the header and the *)
(* header stays in the frame.                                              *)
(***************************************************************************)
\* LengthFieldFramer(0, 4, 0, 4, order), (2, 4, 0, 6, order),
\* (0, 4, -4, 4, order) and (0, 4, -4, 0, order)
Settings ==
    { [offset |-> 0, size |-> 4, adjust |-> 0, strip |-> 4],
      [offset |-> 2, size |-> 4, adjust |-> 0, strip |-> 6],
      [offset |-> 0, size |-> 4, adjust |-> 0 - 4, strip |-> 4],
      [offset |-> 0, size |-> 4, adjust |-> 0 - 4, strip |-> 0] }

\* Messages and parts of messages: 00 00 00 09 and five bytes (example 3),
\* 00 00 00 05 "Hello" (example 1), 01 02 00 00 00 01 "H" (example 2), and
\* length fields of 4, 3 and 0.
Pieces ==
    { <<0, 0, 0, 9, 1, 2, 3, 4, 5>>,
      <<0, 0, 0, 5, 72, 101, 108, 108, 111>>,
      <<1, 2, 0, 0, 0, 1, 72>>,
      <<0, 0, 0, 4>>,
      <<0, 0, 0, 3, 7>>,
      <<0, 0, 0, 0>>,
      <<0, 0>> }

\* What a call can find in the read buffer: one or two pieces.
Inputs == Pieces \cup {p \o q : p, q \in Pieces}

InitFraming ==
    /\ fcfg = [offset |-> 0, size |-> 4, adjust |-> 0, strip |-> 4]
    /\ fin = <<>>
    /\ fpos = 1
    /\ fout = <<>>
    /\ fpc = "idle"
    /\ frounds = 0

\* The framer is called with buf.
FramerCall(cfg, buf) ==
    /\ fpc = "idle"
    /\ fcfg' = cfg
    /\ fin' = buf
    /\ fpos' = 1
    /\ fout' = <<>>
    /\ frounds' = 0
    /\ fpc' = "loop"
    /\ UNCHANGED <<connVars, machineVars, udpVars, recvVars, idleVars, srvVars, bucketVars, pipeVars, routeVars,
                   lruVars, trieVars, chainVars, poolVars, groupVars, panicVars, readerVars, workerVars>>

\* frameLen += uint64(lengthAdjustment); int(frameLen): the sum is taken
\* modulo 2^64 and read back as a signed 64-bit number, which for a field
\* below 2^32 and an adjustment of a few bytes is the signed sum.
IntOfFrameLen(field, adjust) == field + adjust

\* buf[lo:hi] panics unless 0 <= lo <= hi <= cap(buf); the framer slices
\* only after it has found hi within the length of buf.
SlicePanics(lo, hi) == lo < 0 \/ hi < lo

\* One round of the loop on the local buf, which is fin from fpos on.
FieldRound ==
    /\ fpc = "loop"
    /\ LET len == Len(fin) - fpos + 1
           short == len < fcfg.offset + fcfg.size
           frameLen == IntOfFrameLen(Uint32(fin, fpos + fcfg.offset), fcfg.adjust)
           frameEnd == fcfg.offset + fcfg.size + frameLen
       IN IF short \/ len < frameEnd
          THEN /\ fpc' = "returned"
               /\ UNCHANGED <<fpos, fout, frounds>>
          ELSE IF SlicePanics(fcfg.strip, frameEnd)
               THEN /\ fpc' = "panic"
                    /\ UNCHANGED <<fpos, fout, frounds>>
               ELSE /\ fout' = Append(fout, [start |-> fpos + fcfg.strip, len |-> frameEnd - fcfg.strip])
                    /\ fpos' = fpos + frameEnd
                    /\ frounds' = IF frameEnd = 0 THEN frounds + 1 ELSE 0
                    /\ fpc' = IF frameEnd = 0 /\ frounds + 1 = MaxRounds THEN "spinning" ELSE "loop"
    /\ UNCHANGED <<connVars, machineVars, udpVars, recvVars, idleVars, srvVars, bucketVars, pipeVars, routeVars,
                   lruVars, trieVars, chainVars, poolVars, groupVars, panicVars, readerVars, workerVars,
                   fcfg, fin>>
(***************************************************************************)
(* RouterGroup: Use, Handlers and invalidateCache on a chain of groups,    *)
(* group 1 the root and group g + 1 the one child of group g.  A handler   *)
(* is the number of the Use caller that registers it.  Each access to the  *)
(* mutex, to the atomic cacheValid and to cachedHandlers is one step.      *)
(***************************************************************************)
Groups == 1..NumGroups
Users == 1..NumUsers
Readers == 1..NumReaders
NoGroup == 0

\* g.parent and g.children
ParentOf(g) == g - 1
Descendants(g) == {d \in Groups : d > g}

InitGroups ==
    /\ mw = [g \in Groups |-> <<>>]
    /\ cacheValid = [g \in Groups |-> FALSE]
    /\ cached = [g \in Groups |-> <<>>]
    /\ mu = [g \in Groups |-> 0]
    /\ upc = [u \in Users |-> "idle"]
    /\ ugroup = [u \in Users |-> NoGroup]
    /\ hpc = [r \in Readers |-> "idle"]
    /\ hgroup = [r \in Readers |-> NoGroup]
    /\ hcur = [r \in Readers |-> NoGroup]
    /\ combined = [r \in Readers |-> <<>>]
    /\ hret = [r \in Readers |-> <<>>]
    /\ hcalls = [r \in Readers |-> 0]

\* Use(handlers...) is called on group g: with no handler it returns at once.
UseCall(u, g, n) ==
    /\ upc[u] = "idle"
    /\ ugroup' = [ugroup EXCEPT ![u] = g]
    /\ upc' = [upc EXCEPT ![u] = IF n = 0 THEN "done" ELSE "lock"]
    /\ UNCHANGED <<connVars, machineVars, framingVars, workerVars, readerVars, panicVars, udpVars, recvVars, idleVars, srvVars, bucketVars, pipeVars, routeVars,
                   lruVars, trieVars, chainVars, poolVars,
                   mw, cacheValid, cached, mu, hpc, hgroup, hcur, combined, hret, hcalls>>

\* Use: g.mu.Lock()
UseLock(u) ==
    /\ upc[u] = "lock"
    /\ mu[ugroup[u]] = 0
    /\ mu' = [mu EXCEPT ![ugroup[u]] = u]
    /\ upc' = [upc EXCEPT ![u] = "append"]
    /\ UNCHANGED <<connVars, machineVars, framingVars, workerVars, readerVars, panicVars, udpVars, recvVars, idleVars, srvVars, bucketVars, pipeVars, routeVars,
                   lruVars, trieVars, chainVars, poolVars,
                   mw, cacheValid, cached, ugroup, hpc, hgroup, hcur, combined, hret, hcalls>>

\* Use: g.middleware = append(g.middleware, handlers...)
UseAppend(u) ==
    /\ upc[u] = "append"
    /\ mw' = [mw EXCEPT ![ugroup[u]] = Append(@, u)]
    /\ upc' = [upc EXCEPT ![u] = "invalidate"]
    /\ UNCHANGED <<connVars, machineVars, framingVars, workerVars, readerVars, panicVars, udpVars, recvVars, idleVars, srvVars, bucketVars, pipeVars, routeVars,
                   lruVars, trieVars, chainVars, poolVars,
                   cacheValid, cached, mu, ugroup, hpc, hgroup, hcur, combined, hret, hcalls>>

\* invalidateCache of the group itself: g.cacheValid.Store(false)
UseInvalidate(u) ==
    /\ upc[u] = "invalidate"
    /\ cacheValid' = [cacheValid EXCEPT ![ugroup[u]] = FALSE]
    /\ upc' = [upc EXCEPT ![u] = "rlock"]
    /\ UNCHANGED <<connVars, machineVars, framingVars, workerVars, readerVars, panicVars, udpVars, recvVars, idleVars, srvVars, bucketVars, pipeVars, routeVars,
                   lruVars, trieVars, chainVars, poolVars,
                   mw, cached, mu, ugroup, hpc, hgroup, hcur, combined, hret, hcalls>>

\* g.mu.RLock() while the writer w holds g.mu: a sync.RWMutex is not
\* reentrant, the read lock waits for the writer, the caller itself included.
RLockWaits(w, u) == w # 0

\* invalidateCache: g.mu.RLock(); children := g.children; g.mu.RUnlock();
\* then invalidateCache of every child; Use's deferred g.mu.Unlock().  The
\* read lock on the group's own mutex is requested by the goroutine that
\* holds its write lock.
UseChildren(u) ==
    /\ upc[u] = "rlock"
    /\ IF RLockWaits(mu[ugroup[u]], u)
       THEN /\ upc' = [upc EXCEPT ![u] = "blocked"]
            /\ UNCHANGED <<cacheValid, mu>>
       ELSE /\ cacheValid' = [g \in Groups |->
                                 IF g \in Descendants(ugroup[u]) THEN FALSE ELSE cacheValid[g]]
            /\ mu' = [mu EXCEPT ![ugroup[u]] = 0]
            /\ upc' = [upc EXCEPT ![u] = "done"]
    /\ UNCHANGED <<connVars, machineVars, framingVars, workerVars, readerVars, panicVars, udpVars, recvVars, idleVars, srvVars, bucketVars, pipeVars, routeVars,
                   lruVars, trieVars, chainVars, poolVars,
                   mw, cached, ugroup, hpc, hgroup, hcur, combined, hret, hcalls>>

Use(u) ==
    \/ \E g \in Groups, n \in {0, 1} : UseCall(u, g, n)
    \/ UseLock(u)
    \/ UseAppend(u)
    \/ UseInvalidate(u)
    \/ UseChildren(u)

\* Handlers() is called on group g: g.cacheValid.Load(), and with a valid
\* cache the return of a copy of g.cachedHandlers
HandlersLoad(r, g) ==
    /\ hpc[r] = "idle"
    /\ hcalls[r] < HandlersCalls
    /\ hcalls' = [hcalls EXCEPT ![r] = @ + 1]
    /\ hgroup' = [hgroup EXCEPT ![r] = g]
    /\ IF cacheValid[g]
       THEN /\ hret' = [hret EXCEPT ![r] = cached[g]]
            /\ hpc' = [hpc EXCEPT ![r] = "returned"]
            /\ UNCHANGED <<hcur, combined>>
       ELSE /\ hcur' = [hcur EXCEPT ![r] = g]
            /\ combined' = [combined EXCEPT ![r] = <<>>]
            /\ hpc' = [hpc EXCEPT ![r] = "walk"]
            /\ UNCHANGED hret
    /\ UNCHANGED <<connVars, machineVars, framingVars, workerVars, readerVars, panicVars, udpVars, recvVars, idleVars, srvVars, bucketVars, pipeVars, routeVars,
                   lruVars, trieVars, chainVars, poolVars,
                   mw, cacheValid, cached, mu, upc, ugroup>>

\* One round of the loop: current.mu.RLock(); combined =
\* append(current.middleware, combined...); current.mu.RUnlock()
HandlersWalk(r) ==
    /\ hpc[r] = "walk"
    /\ hcur[r] # NoGroup
    /\ mu[hcur[r]] = 0
    /\ combined' = [combined EXCEPT ![r] = mw[hcur[r]] \o @]
    /\ hcur' = [hcur EXCEPT ![r] = ParentOf(@)]
    /\ UNCHANGED <<connVars, machineVars, framingVars, workerVars, readerVars, panicVars, udpVars, recvVars, idleVars, srvVars, bucketVars, pipeVars, routeVars,
                   lruVars, trieVars, chainVars, poolVars,
                   mw, cacheValid, cached, mu, upc, ugroup, hpc, hgroup, hret, hcalls>>

\* g.cacheValid.CompareAndSwap(false, true)
HandlersCas(r) ==
    /\ hpc[r] = "walk"
    /\ hcur[r] = NoGroup
    /\ IF cacheValid[hgroup[r]]
       THEN /\ hret' = [hret EXCEPT ![r] = combined[r]]
            /\ hpc' = [hpc EXCEPT ![r] = "returned"]
            /\ UNCHANGED cacheValid
       ELSE /\ cacheValid' = [cacheValid EXCEPT ![hgroup[r]] = TRUE]
            /\ hpc' = [hpc EXCEPT ![r] = "store"]
            /\ UNCHANGED hret
    /\ UNCHANGED <<connVars, machineVars, framingVars, workerVars, readerVars, panicVars, udpVars, recvVars, idleVars, srvVars, bucketVars, pipeVars, routeVars,
                   lruVars, trieVars, chainVars, poolVars,
                   mw, cached, mu, upc, ugroup, hgroup, hcur, combined, hcalls>>

\* g.cachedHandlers = combined; return combined
HandlersStore(r) ==
    /\ hpc[r] = "store"
    /\ cached' = [cached EXCEPT ![hgroup[r]] = combined[r]]
    /\ hret' = [hret EXCEPT ![r] = combined[r]]
    /\ hpc' = [hpc EXCEPT ![r] = "returned"]
    /\ UNCHANGED <<connVars, machineVars, framingVars, workerVars, readerVars, panicVars, udpVars, recvVars, idleVars, srvVars, bucketVars, pipeVars, routeVars,
                   lruVars, trieVars, chainVars, poolVars,
                   mw, cacheValid, mu, upc, ugroup, hgroup, hcur, combined, hcalls>>

\* The caller has the returned list.
HandlersDone(r) ==
    /\ hpc[r] = "returned"
    /\ hpc' = [hpc EXCEPT ![r] = "idle"]
    /\ UNCHANGED <<connVars, machineVars, framingVars, workerVars, readerVars, panicVars, udpVars, recvVars, idleVars, srvVars, bucketVars, pipeVars, routeVars,
                   lruVars, trieVars, chainVars, poolVars,
                   mw, cacheValid, cached, mu, upc, ugroup, hgroup, hcur, combined, hret, hcalls>>

Handlers(r) ==
    \/ \E g \in Groups : HandlersLoad(r, g)
    \/ HandlersWalk(r)
    \/ HandlersCas(r)
    \/ HandlersStore(r)
    \/ HandlersDone(r)
(***************************************************************************)
(* lruCache: a recency list and a map from keys to the list's elements,    *)
(* both changed under one mutex, so every method is one step.              *)
(***************************************************************************)
Keys == 1..NumKeys
Routes == 1..NumRoutes
NoKey == 0

\* newLRUCache(capacity)
newLRUCache == [ll |-> <<>>, cache |-> {}]

InitLRU ==
    /\ lru = newLRUCache
    /\ stamp = [k \in Keys |-> 0]
    /\ lruOps = 0
    /\ lastOp = [op |-> "none", evicted |-> NoKey, oldest |-> NoKey]

\* The position of key in the list.
ElementOf(ll, key) == CHOOSE i \in 1..Len(ll) : ll[i].key = key

Without(ll, i) == SubSeq(ll, 1, i - 1) \o SubSeq(ll, i + 1, Len(ll))

\* A list that leaves a touched element where it is.
NoMoveToFront(ll, i) == ll

\* c.ll.MoveToFront(ele)
MoveToFront(ll, i) == <<ll[i]>> \o Without(ll, i)

\* removeOldest: the back element leaves the list and the map
removeOldest(c) ==
    IF c.ll = <<>>
    THEN c
    ELSE [ll |-> SubSeq(c.ll, 1, Len(c.ll) - 1), cache |-> c.cache \ {c.ll[Len(c.ll)].key}]

\* Get(key): the cache after it
lruGet(c, key) ==
    IF key \in c.cache THEN [c EXCEPT !.ll = MoveToFront(c.ll, ElementOf(c.ll, key))] ELSE c

\* Add(key, value): the cache after it
lruAdd(c, key, value) ==
    IF LruCap = 0
    THEN c
    ELSE IF key \in c.cache
         THEN [c EXCEPT !.ll = [MoveToFront(c.ll, ElementOf(c.ll, key)) EXCEPT ![1].value = value]]
         ELSE LET pushed == [ll |-> <<[key |-> key, value |-> value]>> \o c.ll,
                             cache |-> c.cache \cup {key}]
              IN IF Len(pushed.ll) > LruCap THEN removeOldest(pushed) ELSE pushed

\* Clear(): the cache after it
lruClear(c) == [ll |-> <<>>, cache |-> {}]

\* The key of the map that was touched least recently.
Oldest(c) == CHOOSE k \in c.cache : \A j \in c.cache : stamp[k] <= stamp[j]

Get(key) ==
    /\ lruOps < MaxLruOps
    /\ lruOps' = lruOps + 1
    /\ lru' = lruGet(lru, key)
    /\ stamp' = IF key \in lru.cache THEN [stamp EXCEPT ![key] = lruOps + 1] ELSE stamp
    /\ lastOp' = [op |-> "get", evicted |-> NoKey, oldest |-> NoKey]
    /\ UNCHANGED <<connVars, machineVars, framingVars, workerVars, readerVars, panicVars, groupVars, poolVars, chainVars, trieVars, udpVars, recvVars, idleVars, srvVars, bucketVars, pipeVars, routeVars>>

Add(key, value) ==
    /\ lruOps < MaxLruOps
    /\ lruOps' = lruOps + 1
    /\ lru' = lruAdd(lru, key, value)
    /\ stamp' = [stamp EXCEPT ![key] = lruOps + 1]
    /\ lastOp' = IF lru.cache \subseteq lru'.cache
                 THEN [op |-> "add", evicted |-> NoKey, oldest |-> NoKey]
                 ELSE [op |-> "add",
                       evicted |-> CHOOSE k \in lru.cache : k \notin lru'.cache,
                       oldest |-> Oldest(lru)]
    /\ UNCHANGED <<connVars, machineVars, framingVars, workerVars, readerVars, panicVars, groupVars, poolVars, chainVars, trieVars, udpVars, recvVars, idleVars, srvVars, bucketVars, pipeVars, routeVars>>

Clear ==
    /\ lruOps < MaxLruOps
    /\ lruOps' = lruOps + 1
    /\ lru' = lruClear(lru)
    /\ stamp' = [k \in Keys |-> 0]
    /\ lastOp' = [op |-> "clear", evicted |-> NoKey, oldest |-> NoKey]
    /\ UNCHANGED <<connVars, machineVars, framingVars, workerVars, readerVars, panicVars, groupVars, poolVars, chainVars, trieVars, udpVars, recvVars, idleVars, srvVars, bucketVars, pipeVars, routeVars>>

(***************************************************************************)
(* The state machine of pkg/state.  Its loop goroutine handles one command *)
(* at a time and is the only writer of cur, epoch and snap, so a call of   *)
(* Change or Event is one step: the command handled and its response.      *)
(* The table has a ring of state transitions and two events per state; a   *)
(* call names the stage, if any, whose hook returns an error.              *)
(***************************************************************************)
MachineStates == 1..NumStates
MachineEvents == {1, 2}
Stages == <<"guards", "before", "apply", "after", "onExit", "onEnter">>
FailAt == {"none"} \cup {Stages[i] : i \in 1..Len(Stages)}
NoState == 0

\* AddTransition(from, to): every state to its successor in the ring
StateTable == [from \in MachineStates |-> (from % NumStates) + 1]

\* AddTransition(from, to, ev): event 1 steps back along the ring from every
\* state but the first, event 2 is defined in the first state only
EventTable ==
    [from \in MachineStates |->
        [ev \in MachineEvents |->
            CASE ev = 1 /\ from > 1 -> from - 1
              [] ev = 2 /\ from = 1 -> NumStates
              [] OTHER -> NoState]]

\* transitionTable.Enable(from, to)
Enable(from, to) == StateTable[from] = to

\* transitionTable.Next(from, ev): the target, NoState for !ok
NextState(from, ev) == EventTable[from][ev]

NoCmd == [kind |-> "none", value |-> 0, from |-> NoState, to |-> NoState, epoch |-> 0,
          snap |-> [state |-> NoState, epoch |-> 0], err |-> "nil"]

\* NewMachine(name, 1)
InitMachine ==
    /\ mcurrent = 1
    /\ epoch = 0
    /\ snap = [state |-> 1, epoch |-> 0]
    /\ lastCmd = NoCmd

\* The stages whose error handleCmd returns to the caller.
Reported == {"guards", "before", "after"}

\* The stages handleCmd runs before it applies the transition.
BeforeApply == {"guards", "before"}

\* handleCmd for a Change(value) or Event(value) call whose hook of the stage
\* fails, if any, returns an error.
handleCmd(kind, value, fails) ==
    LET from == mcurrent
        to == IF kind = "change" THEN value ELSE NextState(from, value)
        ok == IF kind = "change" THEN Enable(from, to) ELSE to # NoState
        applied == ok /\ fails \notin BeforeApply
        err == IF ~ok THEN "undefined transition"
               ELSE IF fails \in Reported THEN fails ELSE "nil"
    IN /\ epoch < MaxEpoch
       /\ mcurrent' = IF applied THEN to ELSE mcurrent
       /\ epoch' = IF applied THEN epoch + 1 ELSE epoch
       /\ snap' = IF applied THEN [state |-> to, epoch |-> epoch + 1] ELSE snap
       /\ lastCmd' = [kind |-> kind, value |-> value, from |-> from,
                      to |-> IF ok THEN to ELSE NoState,
                      epoch |-> epoch, snap |-> snap, err |-> err]
       /\ UNCHANGED <<connVars, udpVars, recvVars, idleVars, srvVars, bucketVars, pipeVars, routeVars,
                      lruVars, trieVars, chainVars, poolVars, groupVars, panicVars, readerVars, workerVars,
                      framingVars>>

\* Machine.Change(ctx, state) and Machine.Event(ctx, event) on a running
\* machine, by a caller whose ctx is not canceled
Change(state, fails) == handleCmd("change", state, fails)
Event(ev, fails) == handleCmd("event", ev, fails)
(***************************************************************************)
(* The frame tasks of Conn.Recv when a handler of the chain or the message *)
(* hook panics.  A frame is its number in the stream; a panic value is the *)
(* position in the chain of the handler that raised it.  The pool accepts  *)
(* every task and runs the tasks its workers hold in any order.            *)
(***************************************************************************)
NoPanic == 0
FrameIds == 1..MaxFrames

InitPanic ==
    /\ jobs = <<>>
    /\ submitted = 0
    /\ processed = {}
    /\ raised = [f \in FrameIds |-> NoPanic]
    /\ reported = [f \in FrameIds |-> <<>>]

\* Recv, after the framer returned n frames: one SubmitTask per frame.
RecvFrames(n) ==
    /\ submitted + n <= MaxFrames
    /\ jobs' = jobs \o [i \in 1..n |-> [kind |-> "frame", frame |-> submitted + i, value |-> NoPanic]]
    /\ submitted' = submitted + n
    /\ UNCHANGED <<connVars, machineVars, framingVars, workerVars, readerVars, udpVars, recvVars, idleVars, srvVars, bucketVars, pipeVars, routeVars,
                   lruVars, trieVars, chainVars, poolVars, groupVars,
                   processed, raised, reported>>

\* c.chain.Handler(ctx) when the handler at position thrower panics on being
\* called: the value the call panics with, NoPanic when it returns.  The
\* handlers before it run and reach it only by calling their next.
RECURSIVE ChainPanic(_, _, _)
ChainPanic(handlers, index, thrower) ==
    IF index > Len(handlers) THEN NoPanic
    ELSE IF index = thrower THEN thrower
    ELSE IF handlers[index] # Terminal /\ callsNext[handlers[index]]
         THEN ChainPanic(handlers, index + 1, thrower)
         ELSE NoPanic

\* A task that lets the panic go: nothing is dispatched.
Unrecovered(f, r) == <<>>

\* The deferred function of the frame task: r := recover(), and for a panic
\* c.dispatchError("handler process panic: r"), one more task for the pool.
Recovered(f, r) ==
    IF r # NoPanic THEN <<[kind |-> "error", frame |-> f, value |-> r]>> ELSE <<>>

\* A worker runs a task it holds.  A frame task decodes the frame and runs
\* the chain inside the recovering function; an error task calls the error
\* hook.
RunJob(i, thrower) ==
    /\ i \in 1..Len(jobs)
    /\ i <= NumWorkers
    /\ LET job == jobs[i]
           others == SubSeq(jobs, 1, i - 1) \o SubSeq(jobs, i + 1, Len(jobs))
       IN IF job.kind = "frame"
          THEN LET r == ChainPanic(NewChain, 1, thrower)
               IN /\ jobs' = others \o Recovered(job.frame, r)
                  /\ raised' = [raised EXCEPT ![job.frame] = r]
                  /\ processed' = processed \cup {job.frame}
                  /\ UNCHANGED reported
          ELSE /\ thrower = 0
               /\ jobs' = others
               /\ reported' = [reported EXCEPT ![job.frame] = Append(@, job.value)]
               /\ UNCHANGED <<raised, processed>>
    /\ UNCHANGED <<connVars, machineVars, framingVars, workerVars, readerVars, udpVars, recvVars, idleVars, srvVars, bucketVars, pipeVars, routeVars,
                   lruVars, trieVars, chainVars, poolVars, groupVars,
                   submitted>>
(***************************************************************************)
(* Conn.SubmitTask on the worker pool.  A dispatching goroutine is one of  *)
(* the connection's read, write and control contexts calling a dispatch    *)
(* function or submitting a frame task.                                    *)
(***************************************************************************)
Dispatchers == 1..NumDispatchers

InitPool ==
    /\ poolClosed = FALSE
    /\ poolLen = 0
    /\ subPc = [d \in Dispatchers |-> "idle"]
    /\ depth = [d \in Dispatchers |-> 0]

\* A dispatch function or Recv calls SubmitTask(task).
Dispatch(d) ==
    /\ subPc[d] = "idle"
    /\ subPc' = [subPc EXCEPT ![d] = "submit"]
    /\ depth' = [depth EXCEPT ![d] = 1]
    /\ UNCHANGED <<connVars, machineVars, framingVars, workerVars, readerVars, panicVars, groupVars, udpVars, recvVars, idleVars, srvVars, bucketVars, pipeVars, routeVars,
                   lruVars, trieVars, chainVars, poolClosed, poolLen>>

\* workerPool.Submit of the non-blocking pool: false when the pool is closed
\* or its queue is full
PoolSubmit(closed, len) == ~closed /\ len < PoolQueue

\* SubmitTask: ok := c.Pool.Submit(task).  Accepted, every nested call
\* returns.  Refused, dispatchError calls SubmitTask with the report of the
\* failure; the goroutine's stack ends the nesting.
SubmitTask(d) ==
    /\ subPc[d] = "submit"
    /\ IF PoolSubmit(poolClosed, poolLen)
       THEN /\ poolLen' = poolLen + 1
            /\ subPc' = [subPc EXCEPT ![d] = "idle"]
            /\ depth' = [depth EXCEPT ![d] = 0]
       ELSE /\ subPc' = [subPc EXCEPT ![d] = IF depth[d] = StackLimit THEN "overflow" ELSE "submit"]
            /\ depth' = [depth EXCEPT ![d] = IF depth[d] = StackLimit THEN @ ELSE @ + 1]
            /\ UNCHANGED poolLen
    /\ UNCHANGED <<connVars, machineVars, framingVars, workerVars, readerVars, panicVars, groupVars, udpVars, recvVars, idleVars, srvVars, bucketVars, pipeVars, routeVars,
                   lruVars, trieVars, chainVars, poolClosed>>

\* A worker takes a task off the queue.
PoolWorker ==
    /\ poolLen > 0
    /\ poolLen' = poolLen - 1
    /\ UNCHANGED <<connVars, machineVars, framingVars, workerVars, readerVars, panicVars, groupVars, udpVars, recvVars, idleVars, srvVars, bucketVars, pipeVars, routeVars,
                   lruVars, trieVars, chainVars, poolClosed, subPc, depth>>

\* workerPool.Close
PoolClose ==
    /\ ~poolClosed
    /\ poolClosed' = TRUE
    /\ UNCHANGED <<connVars, machineVars, framingVars, workerVars, readerVars, panicVars, groupVars, udpVars, recvVars, idleVars, srvVars, bucketVars, pipeVars, routeVars,
                   lruVars, trieVars, chainVars, poolLen, subPc, depth>>
(***************************************************************************)
(* The inbound loop of NETTransport.Start, one statement a step.  A read   *)
(* returns n bytes (0 or 1 here) and an error of one of the kinds the loop *)
(* tells apart.                                                            *)
(***************************************************************************)
ReadErrors == {"nil", "closed", "eof", "timeout", "temporary", "other"}
NoRead == [n |-> 0, err |-> "nil"]

InitReader ==
    /\ npc = "check"
    /\ nread = NoRead
    /\ nlog = <<>>
    /\ ndone = FALSE
    /\ nreads = 0

\* A loop that takes every error for an unrecoverable one.
AllFatal(err) == "fatal"

\* errors.Is(err, net.ErrClosed) || errors.Is(err, io.EOF), then
\* errors.As(err, &ne) && (ne.Timeout() || ne.Temporary())
Classify(err) ==
    CASE err \in {"closed", "eof"} -> "close"
      [] err \in {"timeout", "temporary"} -> "retry"
      [] OTHER -> "fatal"

\* The scope is canceled from outside the loop: Close, the parent scope, the
\* control loop or the write loop.
ScopeCancel ==
    /\ ~ndone
    /\ ndone' = TRUE
    /\ UNCHANGED <<connVars, machineVars, framingVars, workerVars, udpVars, recvVars, idleVars, srvVars, bucketVars, pipeVars, routeVars,
                   lruVars, trieVars, chainVars, poolVars, groupVars, panicVars,
                   npc, nread, nlog, nreads>>

\* select { case <-c.Context().Done(): return; default: }
NetCheck ==
    /\ npc = "check"
    /\ npc' = IF ndone THEN "returned" ELSE "read"
    /\ nlog' = IF ndone THEN Append(nlog, [ev |-> "return", n |-> 0, err |-> "nil"]) ELSE nlog
    /\ UNCHANGED <<connVars, machineVars, framingVars, workerVars, udpVars, recvVars, idleVars, srvVars, bucketVars, pipeVars, routeVars,
                   lruVars, trieVars, chainVars, poolVars, groupVars, panicVars,
                   nread, ndone, nreads>>

\* n, err := nt.raw.Read(buf)
NetRead(n, err) ==
    /\ npc = "read"
    /\ nreads < MaxReads
    /\ n = 0 => err # "nil"
    /\ nreads' = nreads + 1
    /\ nread' = [n |-> n, err |-> err]
    /\ nlog' = Append(nlog, [ev |-> "read", n |-> n, err |-> err])
    /\ npc' = "deliver"
    /\ UNCHANGED <<connVars, machineVars, framingVars, workerVars, udpVars, recvVars, idleVars, srvVars, bucketVars, pipeVars, routeVars,
                   lruVars, trieVars, chainVars, poolVars, groupVars, panicVars,
                   ndone>>

\* if n > 0 { c.Recv(chunk) }
NetDeliver ==
    /\ npc = "deliver"
    /\ nlog' = IF nread.n > 0 THEN Append(nlog, [ev |-> "recv", n |-> nread.n, err |-> "nil"]) ELSE nlog
    /\ npc' = IF nread.err = "nil" THEN "check" ELSE "handle"
    /\ UNCHANGED <<connVars, machineVars, framingVars, workerVars, udpVars, recvVars, idleVars, srvVars, bucketVars, pipeVars, routeVars,
                   lruVars, trieVars, chainVars, poolVars, groupVars, panicVars,
                   nread, ndone, nreads>>

\* if err != nil { ... }: cancel and return, continue, or dispatch the error
\* hook, cancel and return
NetHandle ==
    /\ npc = "handle"
    /\ LET class == Classify(nread.err)
       IN /\ nlog' = nlog
                     \o (IF class = "fatal"
                         THEN <<[ev |-> "error", n |-> 0, err |-> nread.err]>> ELSE <<>>)
                     \o (IF class # "retry"
                         THEN <<[ev |-> "cancel", n |-> 0, err |-> "nil"],
                                [ev |-> "return", n |-> 0, err |-> "nil"]>> ELSE <<>>)
          /\ ndone' = (ndone \/ class # "retry")
          /\ npc' = IF class = "retry" THEN "check" ELSE "returned"
    /\ UNCHANGED <<connVars, machineVars, framingVars, workerVars, udpVars, recvVars, idleVars, srvVars, bucketVars, pipeVars, routeVars,
                   lruVars, trieVars, chainVars, poolVars, groupVars, panicVars,
                   nread, nreads>>
(***************************************************************************)
(* RouterHandler and Chain.  Handlers are numbered; what a user handler    *)
(* does with its next is its one property that the dispatch depends on.    *)
(***************************************************************************)
\* The handler RouterHandler appends to the sub-chain: it calls the outer next.
OuterNext == 0

\* route.Handlers(): the middleware of the route's groups, root first, then
\* the handlers of the route itself.
GroupHandlers == [i \in 1..NumGroupMw |-> i]
RouteMiddleware == [i \in 1..NumRouteMw |-> NumGroupMw + i]
RouteHandlers == GroupHandlers \o RouteMiddleware

NotFoundHandlers == [i \in 1..NumNotFound |-> NumGroupMw + NumRouteMw + i]
NoChain == <<>>
UserHandlers == 1..(NumGroupMw + NumRouteMw + NumNotFound)

\* What a resolver returns: no path, the path of the registered route, or a
\* path no route is registered for.
Resolved == {[ok |-> FALSE, path |-> ""], [ok |-> TRUE, path |-> "a"], [ok |-> TRUE, path |-> "b"]}
NoReq == [ok |-> FALSE, path |-> "none"]

InitRouter ==
    /\ callsNext \in [UserHandlers -> BOOLEAN]
    /\ notFound \in {NoChain, NotFoundHandlers}
    /\ lastReq = NoReq
    /\ trace = <<>>

\* router.Match(path): the route registered for the path, if any
Match(path) == path = "a"

\* A chain that runs every handler, whatever the handlers do with next.
RECURSIVE RunAll(_, _)
RunAll(handlers, index) ==
    IF index > Len(handlers) THEN <<>> ELSE <<handlers[index]>> \o RunAll(handlers, index + 1)

\* Chain.Handler, dispatch(index): the handler at index runs; the next one
\* is dispatched when that handler calls its next.
RECURSIVE dispatch(_, _)
dispatch(handlers, index) ==
    IF index > Len(handlers)
    THEN <<>>
    ELSE <<handlers[index]>> \o
         (IF handlers[index] # OuterNext /\ callsNext[handlers[index]]
          THEN dispatch(handlers, index + 1)
          ELSE <<>>)

\* The handler RouterHandler returns, on a message for which the resolver
\* returns r.
RouterHandler(r) ==
    /\ lastReq' = r
    /\ trace' = IF ~r.ok
                THEN <<OuterNext>>
                ELSE LET chain == IF Match(r.path) THEN RouteHandlers ELSE notFound
                     IN dispatch(chain \o <<OuterNext>>, 1)
    /\ UNCHANGED <<connVars, machineVars, framingVars, workerVars, readerVars, panicVars, groupVars, poolVars, chainVars, trieVars, lruVars, udpVars, recvVars, idleVars, srvVars, bucketVars, pipeVars,
                   callsNext, notFound>>

(***************************************************************************)
(* A server: the goroutine that calls Listen (which runs the serve loop    *)
(* and, when it ends, clear), the control loops of the connections it      *)
(* started, and the callers of Stop.  The stream server and the datagram   *)
(* server differ in what Listen stores and in the order of clear's steps.  *)
(***************************************************************************)
Stoppers == 1..NumStoppers

InitServer ==
    /\ srvKind \in {"tcp", "udp"}
    /\ srvPc = "new"
    /\ srvRunning = FALSE
    /\ srvCtxDone = FALSE
    /\ srvStopped = FALSE
    /\ srvStopOnce = "new"
    /\ srvWg = 0
    /\ srvAccepts = 0
    /\ stopHooks = 0
    /\ stopPc = [p \in Stoppers |-> "idle"]
    /\ cfgIdle \in {s * UnitsPerSec : s \in 0..MaxIdleCfg}
    /\ reapIdle = 0
    /\ reapPc = "none"

IsRunning == srvRunning

\* A panic in a goroutine that nothing recovers ends the process.
Crashed == reapPc = "panic"

\* NewServer derives the server's scope from the caller's context: canceling
\* that context cancels the server's scope.
ServerParentCancel ==
    /\ ~Crashed
    /\ ~srvCtxDone
    /\ srvCtxDone' = TRUE
    /\ UNCHANGED <<connVars, machineVars, framingVars, workerVars, readerVars, panicVars, groupVars, poolVars, chainVars, trieVars, lruVars, routeVars, pipeVars, bucketVars, udpVars, recvVars, idleVars, cfgIdle, reapIdle, reapPc, srvKind, srvPc, srvRunning, srvStopped,
                   srvStopOnce, srvWg, srvAccepts, stopHooks, stopPc>>

\* 5 * time.Minute
FiveMinutes == 5 * 60 * UnitsPerSec

\* Listen: idleTimeout := s.cfg.IdleTimeout; if idleTimeout > 0 { idleTimeout = 5 * time.Minute }
ReaperIdle(idleTimeout) == IF idleTimeout > 0 THEN FiveMinutes ELSE idleTimeout

\* Listen up to the call of serve: the stream server stores running = true,
\* the datagram server stores started = true, leaves running alone and
\* starts the reaper goroutine.
Listen ==
    /\ srvPc = "new"
    /\ srvRunning' = (srvKind = "tcp")
    /\ srvPc' = "serve"
    /\ IF srvKind = "udp"
       THEN /\ reapIdle' = ReaperIdle(cfgIdle)
            /\ reapPc' = "start"
       ELSE UNCHANGED <<reapIdle, reapPc>>
    /\ UNCHANGED <<connVars, machineVars, framingVars, workerVars, readerVars, panicVars, groupVars, poolVars, chainVars, trieVars, lruVars, routeVars, pipeVars, bucketVars, udpVars, recvVars, idleVars, cfgIdle, srvKind, srvCtxDone, srvStopped,
                   srvStopOnce, srvWg, srvAccepts, stopHooks, stopPc>>

\* reaper: s.wg.Add(1); tk := time.NewTicker(idle / 2), which panics unless
\* the period is positive.
ReaperTicker ==
    /\ reapPc = "start"
    /\ IF reapIdle \div 2 > 0
       THEN /\ reapPc' = "loop"
            /\ srvWg' = srvWg + 1
       ELSE /\ reapPc' = "panic"
            /\ UNCHANGED srvWg
    /\ UNCHANGED <<connVars, machineVars, framingVars, workerVars, readerVars, panicVars, groupVars, poolVars, chainVars, trieVars, lruVars, routeVars, pipeVars, bucketVars, udpVars, recvVars, idleVars, cfgIdle, reapIdle, srvKind, srvPc,
                   srvRunning, srvCtxDone, srvStopped, srvStopOnce, srvAccepts, stopHooks, stopPc>>

\* reaper: case <-s.ctx.Done(): return; the deferred s.wg.Done()
ReaperExit ==
    /\ reapPc = "loop"
    /\ srvCtxDone
    /\ reapPc' = "exit"
    /\ srvWg' = srvWg - 1
    /\ UNCHANGED <<connVars, machineVars, framingVars, workerVars, readerVars, panicVars, groupVars, poolVars, chainVars, trieVars, lruVars, routeVars, pipeVars, bucketVars, udpVars, recvVars, idleVars, cfgIdle, reapIdle, srvKind, srvPc,
                   srvRunning, srvCtxDone, srvStopped, srvStopOnce, srvAccepts, stopHooks, stopPc>>

reaper ==
    \/ ReaperTicker
    \/ ReaperExit

\* serve: a connection (a pseudo-connection) is created and started; its
\* control loop does s.wg.Add(1).
ServeAccept ==
    /\ ~Crashed
    /\ srvPc = "serve"
    /\ srvAccepts < MaxAccepts
    /\ srvAccepts' = srvAccepts + 1
    /\ srvWg' = srvWg + 1
    /\ UNCHANGED <<connVars, machineVars, framingVars, workerVars, readerVars, panicVars, groupVars, poolVars, chainVars, trieVars, lruVars, routeVars, pipeVars, bucketVars, udpVars, recvVars, idleVars, cfgIdle, reapIdle, reapPc, srvKind, srvPc, srvRunning, srvCtxDone,
                   srvStopped, srvStopOnce, stopHooks, stopPc>>

\* serve: case <-s.ctx.Done(): return nil; the deferred clear starts
ServeExit ==
    /\ ~Crashed
    /\ srvPc = "serve"
    /\ srvCtxDone
    /\ srvPc' = "clear"
    /\ UNCHANGED <<connVars, machineVars, framingVars, workerVars, readerVars, panicVars, groupVars, poolVars, chainVars, trieVars, lruVars, routeVars, pipeVars, bucketVars, udpVars, recvVars, idleVars, cfgIdle, reapIdle, reapPc, srvKind, srvRunning, srvCtxDone,
                   srvStopped, srvStopOnce, srvWg, srvAccepts, stopHooks, stopPc>>

\* clear: if !s.running.Load() || socket == nil { return }; s.running.Store(false)
ClearCheck ==
    /\ ~Crashed
    /\ srvPc = "clear"
    /\ srvPc' = IF ~srvRunning THEN "returned" ELSE "wait"
    /\ srvRunning' = FALSE
    /\ UNCHANGED <<connVars, machineVars, framingVars, workerVars, readerVars, panicVars, groupVars, poolVars, chainVars, trieVars, lruVars, routeVars, pipeVars, bucketVars, udpVars, recvVars, idleVars, cfgIdle, reapIdle, reapPc, srvKind, srvCtxDone, srvStopped,
                   srvStopOnce, srvWg, srvAccepts, stopHooks, stopPc>>

\* clear: s.wg.Wait() returns; the stop hook is submitted and stopped is
\* closed (the datagram server closes first, the stream server submits first);
\* Listen returns.
ClearFinish ==
    /\ ~Crashed
    /\ srvPc = "wait"
    /\ srvWg = 0
    /\ stopHooks' = stopHooks + 1
    /\ srvStopped' = TRUE
    /\ srvPc' = "returned"
    /\ UNCHANGED <<connVars, machineVars, framingVars, workerVars, readerVars, panicVars, groupVars, poolVars, chainVars, trieVars, lruVars, routeVars, pipeVars, bucketVars, udpVars, recvVars, idleVars, cfgIdle, reapIdle, reapPc, srvKind, srvRunning, srvCtxDone,
                   srvStopOnce, srvWg, srvAccepts, stopPc>>

\* The control loop of a connection of the server ends once the server's
\* scope is canceled: wg.Done().
ConnDone ==
    /\ ~Crashed
    /\ srvCtxDone
    /\ srvWg > 0
    /\ srvWg' = srvWg - 1
    /\ UNCHANGED <<connVars, machineVars, framingVars, workerVars, readerVars, panicVars, groupVars, poolVars, chainVars, trieVars, lruVars, routeVars, pipeVars, bucketVars, udpVars, recvVars, idleVars, cfgIdle, reapIdle, reapPc, srvKind, srvPc, srvRunning, srvCtxDone,
                   srvStopped, srvStopOnce, srvAccepts, stopHooks, stopPc>>

serveLoop ==
    \/ ServeAccept
    \/ ServeExit
    \/ ClearCheck
    \/ ClearFinish

\* Stop on the listening server, the first call: stopOnce.Do runs s.cancel()
StopCancel(p) ==
    /\ ~Crashed
    /\ stopPc[p] = "idle"
    /\ srvPc # "new"
    /\ OnceEnter(srvStopOnce)
    /\ srvStopOnce' = "running"
    /\ srvCtxDone' = TRUE
    /\ stopPc' = [stopPc EXCEPT ![p] = "wait"]
    /\ UNCHANGED <<connVars, machineVars, framingVars, workerVars, readerVars, panicVars, groupVars, poolVars, chainVars, trieVars, lruVars, routeVars, pipeVars, bucketVars, udpVars, recvVars, idleVars, cfgIdle, reapIdle, reapPc, srvKind, srvPc, srvRunning, srvStopped,
                   srvWg, srvAccepts, stopHooks>>

\* <-s.stopped; the Once's function returns
StopWait(p) ==
    /\ ~Crashed
    /\ stopPc[p] = "wait"
    /\ srvStopped
    /\ srvStopOnce' = "done"
    /\ stopPc' = [stopPc EXCEPT ![p] = "done"]
    /\ UNCHANGED <<connVars, machineVars, framingVars, workerVars, readerVars, panicVars, groupVars, poolVars, chainVars, trieVars, lruVars, routeVars, pipeVars, bucketVars, udpVars, recvVars, idleVars, cfgIdle, reapIdle, reapPc, srvKind, srvPc, srvRunning, srvCtxDone,
                   srvStopped, srvWg, srvAccepts, stopHooks>>

\* Stop after the first call has returned: stopOnce.Do returns at once
StopAgain(p) ==
    /\ ~Crashed
    /\ stopPc[p] = "idle"
    /\ OnceReturn(srvStopOnce)
    /\ stopPc' = [stopPc EXCEPT ![p] = "done"]
    /\ UNCHANGED <<connVars, machineVars, framingVars, workerVars, readerVars, panicVars, groupVars, poolVars, chainVars, trieVars, lruVars, routeVars, pipeVars, bucketVars, udpVars, recvVars, idleVars, cfgIdle, reapIdle, reapPc, srvKind, srvPc, srvRunning, srvCtxDone,
                   srvStopped, srvStopOnce, srvWg, srvAccepts, stopHooks>>

Stop(p) ==
    \/ StopCancel(p)
    \/ StopWait(p)
    \/ StopAgain(p)

(***************************************************************************)
(* Trie and the Router's insert and Match.  A trie node is the path that   *)
(* leads to it.  Node.children is an atomic pointer to a map: the pointer  *)
(* is modelled by the number of the variable it points to, the map by its  *)
(* keys.  Every atomic load, store and compare-and-swap is one step.       *)
(***************************************************************************)
Parts == 1..NumParts
TriePaths == UNION {[1..n -> Parts] : n \in 0..MaxDepth}
Inserters == 1..NumInserters
Matchers == 1..NumMatchers

\* A nil children pointer.
NilMap == [id |-> 0, keys |-> {}]

\* &children: the address of the inserter's local variable children, which
\* is the address of no variable ever stored in a node.
AddrOfChildren(w) == 0 - w

\* The node reached from a path after n parts.
NodeAt(path, n) == SubSeq(path, 1, n)

InitTrie ==
    /\ kids = [n \in TriePaths |-> NilMap]
    /\ vals = [n \in TriePaths |-> 0]
    /\ cells = 0
    /\ rcache = newLRUCache
    /\ ipc = [w \in Inserters |-> "idle"]
    /\ ipath = [w \in Inserters |-> <<>>]
    /\ icur = [w \in Inserters |-> 0]
    /\ imap = [w \in Inserters |-> NilMap]
    /\ iold = [w \in Inserters |-> 0]
    /\ spurious = FALSE
    /\ inserted = {}
    /\ mpc = [m \in Matchers |-> "idle"]
    /\ mpath = [m \in Matchers |-> <<>>]
    /\ mcur = [m \in Matchers |-> 0]
    /\ mres = [m \in Matchers |-> 0]
    /\ mcalls = [m \in Matchers |-> 0]
    /\ seen = [m \in Matchers |-> {}]

\* Trie.Query run alone on the trie (k, v): the value found, 0 for none
Query(k, v, path) ==
    IF \A i \in 1..Len(path) : path[i] \in k[NodeAt(path, i - 1)].keys THEN v[path] ELSE 0

\* The values that inserts which have stored but not yet returned replaced
\* at a path.
Replaced(path) ==
    {iold[w] : w \in {x \in Inserters : ipc[x] = "clear" /\ ipath[x] = path}}

\* What the matchers inside a call have seen of the trie once it is (k, v).
Seen(k, v) ==
    [m \in Matchers |-> IF mpc[m] = "idle" THEN seen[m] ELSE seen[m] \cup {Query(k, v, mpath[m])}]

\* Router.insert(route) of inserter w, whose route has the number w: the call
\* of Trie.Insert
InsertCall(w, path) ==
    /\ ipc[w] = "idle"
    /\ ipath' = [ipath EXCEPT ![w] = path]
    /\ icur' = [icur EXCEPT ![w] = 0]
    /\ ipc' = [ipc EXCEPT ![w] = IF path = <<>> THEN "store" ELSE "load"]
    /\ UNCHANGED <<connVars, machineVars, framingVars, workerVars, readerVars, panicVars, groupVars, poolVars, chainVars, udpVars, recvVars, idleVars, srvVars, bucketVars, pipeVars, routeVars, lruVars, kids, vals, cells, rcache, imap, iold,
                   spurious, inserted, mpc, mpath, mcur, mres, mcalls, seen>>

\* Insert: children := cur.Children(); then the lookup of the part in it
InsertLoad(w) ==
    /\ ipc[w] = "load"
    /\ LET node == NodeAt(ipath[w], icur[w])
           part == ipath[w][icur[w] + 1]
       IN /\ imap' = [imap EXCEPT ![w] = kids[node]]
          /\ IF kids[node] = NilMap
             THEN /\ ipc' = [ipc EXCEPT ![w] = "init"]
                  /\ UNCHANGED icur
             ELSE IF part \in kids[node].keys
                  THEN /\ icur' = [icur EXCEPT ![w] = @ + 1]
                       /\ ipc' = [ipc EXCEPT ![w] =
                                    IF icur[w] + 1 = Len(ipath[w]) THEN "store" ELSE "load"]
                  ELSE /\ ipc' = [ipc EXCEPT ![w] = "publish"]
                       /\ UNCHANGED icur
    /\ UNCHANGED <<connVars, machineVars, framingVars, workerVars, readerVars, panicVars, groupVars, poolVars, chainVars, udpVars, recvVars, idleVars, srvVars, bucketVars, pipeVars, routeVars, lruVars, kids, vals, cells, rcache, ipath, iold,
                   spurious, inserted, mpc, mpath, mcur, mres, mcalls, seen>>

\* Insert: cur.children.CompareAndSwap(nil, &newMap) with the empty newMap
InsertInit(w) ==
    /\ ipc[w] = "init"
    /\ LET node == NodeAt(ipath[w], icur[w])
       IN IF kids[node].id = 0
          THEN /\ kids' = [kids EXCEPT ![node] = [id |-> cells + 1, keys |-> {}]]
               /\ cells' = cells + 1
               /\ imap' = [imap EXCEPT ![w] = [id |-> cells + 1, keys |-> {}]]
               /\ ipc' = [ipc EXCEPT ![w] = "publish"]
          ELSE /\ ipc' = [ipc EXCEPT ![w] = "load"]
               /\ UNCHANGED <<kids, cells, imap>>
    /\ UNCHANGED <<connVars, machineVars, framingVars, workerVars, readerVars, panicVars, groupVars, poolVars, chainVars, udpVars, recvVars, idleVars, srvVars, bucketVars, pipeVars, routeVars, lruVars, vals, rcache, ipath, icur, iold,
                   spurious, inserted, mpc, mpath, mcur, mres, mcalls, seen>>

\* Insert: the copy of children with the new child added, then
\* cur.children.CompareAndSwap(&children, &newMap)
InsertPublish(w) ==
    /\ ipc[w] = "publish"
    /\ LET node == NodeAt(ipath[w], icur[w])
           part == ipath[w][icur[w] + 1]
           newMap == [id |-> cells + 1, keys |-> imap[w].keys \cup {part}]
       IN IF kids[node].id = AddrOfChildren(w)
          THEN /\ kids' = [kids EXCEPT ![node] = newMap]
               /\ cells' = cells + 1
               /\ icur' = [icur EXCEPT ![w] = @ + 1]
               /\ ipc' = [ipc EXCEPT ![w] =
                            IF icur[w] + 1 = Len(ipath[w]) THEN "store" ELSE "load"]
               /\ seen' = Seen(kids', vals)
               /\ UNCHANGED spurious
          ELSE /\ ipc' = [ipc EXCEPT ![w] = "load"]
               /\ spurious' = (spurious \/ kids[node] = imap[w])
               /\ UNCHANGED <<kids, cells, icur, seen>>
    /\ UNCHANGED <<connVars, machineVars, framingVars, workerVars, readerVars, panicVars, groupVars, poolVars, chainVars, udpVars, recvVars, idleVars, srvVars, bucketVars, pipeVars, routeVars, lruVars, vals, rcache, ipath, imap, iold,
                   inserted, mpc, mpath, mcur, mres, mcalls>>

\* Insert: cur.value.Store(value); Trie.Insert returns
InsertStore(w) ==
    /\ ipc[w] = "store"
    /\ vals' = [vals EXCEPT ![ipath[w]] = w]
    /\ iold' = [iold EXCEPT ![w] = vals[ipath[w]]]
    /\ seen' = Seen(kids, vals')
    /\ ipc' = [ipc EXCEPT ![w] = "clear"]
    /\ UNCHANGED <<connVars, machineVars, framingVars, workerVars, readerVars, panicVars, groupVars, poolVars, chainVars, udpVars, recvVars, idleVars, srvVars, bucketVars, pipeVars, routeVars, lruVars, kids, cells, rcache, ipath, icur, imap,
                   spurious, inserted, mpc, mpath, mcur, mres, mcalls>>

\* Router.insert: cache.Clear(); insert returns
InsertClear(w) ==
    /\ ipc[w] = "clear"
    /\ rcache' = lruClear(rcache)
    /\ inserted' = inserted \cup {ipath[w]}
    /\ ipc' = [ipc EXCEPT ![w] = "done"]
    /\ UNCHANGED <<connVars, machineVars, framingVars, workerVars, readerVars, panicVars, groupVars, poolVars, chainVars, udpVars, recvVars, idleVars, srvVars, bucketVars, pipeVars, routeVars, lruVars, kids, vals, cells, ipath, icur, imap, iold,
                   spurious, mpc, mpath, mcur, mres, mcalls, seen>>

insert(w) ==
    \/ \E path \in TriePaths : InsertCall(w, path)
    \/ InsertLoad(w)
    \/ InsertInit(w)
    \/ InsertPublish(w)
    \/ InsertStore(w)
    \/ InsertClear(w)

\* Router.Match(path): cache.Get(path)
MatchGet(m, path) ==
    /\ mpc[m] = "idle"
    /\ mcalls[m] < MatchCalls
    /\ mcalls' = [mcalls EXCEPT ![m] = @ + 1]
    /\ mpath' = [mpath EXCEPT ![m] = path]
    /\ mcur' = [mcur EXCEPT ![m] = 0]
    /\ seen' = [seen EXCEPT ![m] = {Query(kids, vals, path)} \cup Replaced(path)]
    /\ rcache' = lruGet(rcache, path)
    /\ IF path \in rcache.cache
       THEN /\ mres' = [mres EXCEPT ![m] = rcache.ll[ElementOf(rcache.ll, path)].value]
            /\ mpc' = [mpc EXCEPT ![m] = "return"]
       ELSE /\ mres' = [mres EXCEPT ![m] = 0]
            /\ mpc' = [mpc EXCEPT ![m] = "query"]
    /\ UNCHANGED <<connVars, machineVars, framingVars, workerVars, readerVars, panicVars, groupVars, poolVars, chainVars, udpVars, recvVars, idleVars, srvVars, bucketVars, pipeVars, routeVars, lruVars, kids, vals, cells, ipc, ipath, icur, imap, iold,
                   spurious, inserted>>

\* Trie.Query: cur.Child(part) at one level, or cur.Value() at the end
MatchQuery(m) ==
    /\ mpc[m] = "query"
    /\ IF mcur[m] < Len(mpath[m])
       THEN IF mpath[m][mcur[m] + 1] \in kids[NodeAt(mpath[m], mcur[m])].keys
            THEN /\ mcur' = [mcur EXCEPT ![m] = @ + 1]
                 /\ UNCHANGED <<mpc, mres>>
            ELSE /\ mpc' = [mpc EXCEPT ![m] = "return"]
                 /\ UNCHANGED <<mcur, mres>>
       ELSE /\ mres' = [mres EXCEPT ![m] = vals[mpath[m]]]
            /\ mpc' = [mpc EXCEPT ![m] = IF vals[mpath[m]] = 0 THEN "return" ELSE "add"]
            /\ UNCHANGED mcur
    /\ UNCHANGED <<connVars, machineVars, framingVars, workerVars, readerVars, panicVars, groupVars, poolVars, chainVars, udpVars, recvVars, idleVars, srvVars, bucketVars, pipeVars, routeVars, lruVars, kids, vals, cells, rcache, ipc, ipath, icur, imap, iold,
                   spurious, inserted, mpath, mcalls, seen>>

\* Match: cache.Add(path, route)
MatchAdd(m) ==
    /\ mpc[m] = "add"
    /\ rcache' = lruAdd(rcache, mpath[m], mres[m])
    /\ mpc' = [mpc EXCEPT ![m] = "return"]
    /\ UNCHANGED <<connVars, machineVars, framingVars, workerVars, readerVars, panicVars, groupVars, poolVars, chainVars, udpVars, recvVars, idleVars, srvVars, bucketVars, pipeVars, routeVars, lruVars, kids, vals, cells, ipc, ipath, icur, imap, iold,
                   spurious, inserted, mpath, mcur, mres, mcalls, seen>>

\* Match returns mres.
MatchReturn(m) ==
    /\ mpc[m] = "return"
    /\ mpc' = [mpc EXCEPT ![m] = "idle"]
    /\ UNCHANGED <<connVars, machineVars, framingVars, workerVars, readerVars, panicVars, groupVars, poolVars, chainVars, udpVars, recvVars, idleVars, srvVars, bucketVars, pipeVars, routeVars, lruVars, kids, vals, cells, rcache, ipc, ipath, icur, imap, iold,
                   spurious, inserted, mpath, mcur, mres, mcalls, seen>>

RouterMatch(m) ==
    \/ \E path \in TriePaths : MatchGet(m, path)
    \/ MatchQuery(m)
    \/ MatchAdd(m)
    \/ MatchReturn(m)

(***************************************************************************)
(* The worker pool: Submit with maybeSpawnWorker, and the worker           *)
(* goroutines of spawn with their idle timer.  The pool is the default     *)
(* one: non-blocking, no enqueue wait, and it is not closed.               *)
(***************************************************************************)
WorkerIds == 1..MaxWorkers
Submitters == 1..NumSubmitters

InitWorkers ==
    /\ ptasks = <<>>
    /\ curWorkers = 0
    /\ wst = [w \in WorkerIds |-> "none"]
    /\ wtask = [w \in WorkerIds |-> 0]
    /\ spc = [s \in Submitters |-> "idle"]
    /\ stask = [s \in Submitters |-> 0]
    /\ issued = 0
    /\ accepted = {}
    /\ executed = {}

\* maybeSpawnWorker: whether it starts a worker, from curWorkers and
\* len(p.tasks)
Spawns(cw, len) == cw < MaxWorkers /\ ~(len = 0 /\ cw > 0)

\* Submit(task): the closed check and maybeSpawnWorker, with spawn's
\* p.wg.Add(1) and go statement.
SubmitSpawn(s) ==
    /\ spc[s] = "idle"
    /\ issued < MaxTasks
    /\ issued' = issued + 1
    /\ stask' = [stask EXCEPT ![s] = issued + 1]
    /\ spc' = [spc EXCEPT ![s] = "enqueue"]
    /\ IF Spawns(curWorkers, Len(ptasks))
       THEN \E w \in WorkerIds :
               /\ wst[w] = "none"
               /\ \A v \in WorkerIds : wst[v] = "none" => w <= v
               /\ wst' = [wst EXCEPT ![w] = "waiting"]
               /\ curWorkers' = curWorkers + 1
       ELSE UNCHANGED <<wst, curWorkers>>
    /\ UNCHANGED <<connVars, machineVars, framingVars, udpVars, recvVars, idleVars, srvVars, bucketVars, pipeVars, routeVars,
                   lruVars, trieVars, chainVars, poolVars, groupVars, panicVars, readerVars, ptasks, wtask, accepted, executed>>

\* Submit: select { case p.tasks <- p.wrap(task): return true; default: },
\* and with the queue full the return of false.
SubmitEnqueue(s) ==
    /\ spc[s] = "enqueue"
    /\ spc' = [spc EXCEPT ![s] = "idle"]
    /\ IF Len(ptasks) < PoolQueue
       THEN /\ ptasks' = Append(ptasks, stask[s])
            /\ accepted' = accepted \cup {stask[s]}
       ELSE UNCHANGED <<ptasks, accepted>>
    /\ UNCHANGED <<connVars, machineVars, framingVars, udpVars, recvVars, idleVars, srvVars, bucketVars, pipeVars, routeVars,
                   lruVars, trieVars, chainVars, poolVars, groupVars, panicVars, readerVars, curWorkers, wst, wtask, stask, issued, executed>>

\* A worker's select takes case task := <-p.tasks.
WorkerTake(w) ==
    /\ wst[w] = "waiting"
    /\ ptasks # <<>>
    /\ wtask' = [wtask EXCEPT ![w] = Head(ptasks)]
    /\ ptasks' = Tail(ptasks)
    /\ wst' = [wst EXCEPT ![w] = "running"]
    /\ UNCHANGED <<connVars, machineVars, framingVars, udpVars, recvVars, idleVars, srvVars, bucketVars, pipeVars, routeVars,
                   lruVars, trieVars, chainVars, poolVars, groupVars, panicVars, readerVars, curWorkers, spc, stask, issued, accepted, executed>>

\* task() returns; idle.Reset(p.opts.IdleTimeout)
WorkerRun(w) ==
    /\ wst[w] = "running"
    /\ executed' = executed \cup {wtask[w]}
    /\ wtask' = [wtask EXCEPT ![w] = 0]
    /\ wst' = [wst EXCEPT ![w] = "waiting"]
    /\ UNCHANGED <<connVars, machineVars, framingVars, udpVars, recvVars, idleVars, srvVars, bucketVars, pipeVars, routeVars,
                   lruVars, trieVars, chainVars, poolVars, groupVars, panicVars, readerVars, ptasks, curWorkers, spc, stask, issued, accepted>>

\* The idle timer has fired and the worker's select takes case <-idle.C: the
\* worker returns.  With a task in the queue as well the select chooses
\* between the two cases.
WorkerIdle(w) ==
    /\ wst[w] = "waiting"
    /\ wst' = [wst EXCEPT ![w] = "exiting"]
    /\ UNCHANGED <<connVars, machineVars, framingVars, udpVars, recvVars, idleVars, srvVars, bucketVars, pipeVars, routeVars,
                   lruVars, trieVars, chainVars, poolVars, groupVars, panicVars, readerVars, ptasks, curWorkers, wtask, spc, stask, issued, accepted, executed>>

\* The worker's deferred atomic.AddInt32(&p.curWorkers, -1) and p.wg.Done()
WorkerExit(w) ==
    /\ wst[w] = "exiting"
    /\ curWorkers' = curWorkers - 1
    /\ wst' = [wst EXCEPT ![w] = "none"]
    /\ UNCHANGED <<connVars, machineVars, framingVars, udpVars, recvVars, idleVars, srvVars, bucketVars, pipeVars, routeVars,
                   lruVars, trieVars, chainVars, poolVars, groupVars, panicVars, readerVars, ptasks, wtask, spc, stask, issued, accepted, executed>>

Submit(s) == SubmitSpawn(s) \/ SubmitEnqueue(s)

worker(w) == WorkerTake(w) \/ WorkerRun(w) \/ WorkerIdle(w) \/ WorkerExit(w)
(***************************************************************************)
(* Specifications of the connection engine.                                *)
(***************************************************************************)
\* Every part other than the connection engine, in its initial state.
InitParts ==
    /\ InitUDP
    /\ InitRecv
    /\ InitIdle
    /\ InitServer
    /\ InitBucket
    /\ InitLimit
    /\ InitRouter
    /\ InitLRU
    /\ InitTrie
    /\ InitChain
    /\ InitPool
    /\ InitGroups
    /\ InitPanic
    /\ InitReader
    /\ InitWorkers
    /\ InitFraming
    /\ InitMachine

\* One configuration of a part, for the specifications that leave it alone.
OneServer == srvKind = "tcp" /\ cfgIdle = 0
OneLimit == limit = "nil"
OneFramer == framer = "delimiter" /\ decoder = "raw"
OneChain == setsPayload = [h \in 1..NumHandlers |-> "keep"]
OneRouter == notFound = NoChain /\ callsNext = [h \in UserHandlers |-> TRUE]

\* The parts of the state a specification leaves alone.
InitRest ==
    /\ OneServer
    /\ OneLimit
    /\ OneRouter
    /\ OneFramer
    /\ OneChain
    /\ InitParts

\* No call of the connection's interface is made.
NoCalls ==
    /\ quota = [p \in Callers |-> 0]
    /\ sendCap = QueueCap
    /\ InitConn

FirstStarter == <<"start", 1>>
FirstSender == <<"send", 1>>

\* Every caller makes one call.
Init ==
    /\ quota = [p \in Callers |-> 1]
    /\ sendCap = QueueCap
    /\ InitConn
    /\ InitRest

Next ==
    \/ \E p \in Starters : Start(p)
    \/ \E p \in Closers : Close(p)
    \/ \E p \in Senders : Send(p)
    \/ ParentCancel
    \/ mainLoop
    \/ writeLoop
    \/ netReader

Spec == Init /\ [][Next]_vars

\* Every Start caller calls Start SeqCalls times; one Send caller sends
\* SeqCalls messages one after the other.
InitStart ==
    /\ quota = [p \in Callers |->
           IF p \in Starters \/ p = FirstSender THEN SeqCalls ELSE 0]
    /\ sendCap = QueueCap
    /\ InitConn
    /\ InitRest

NextStart ==
    \/ \E p \in Starters : Start(p)
    \/ Send(FirstSender)
    \/ ParentCancel
    \/ mainLoop
    \/ writeLoop
    \/ netReader

SpecStart == InitStart /\ [][NextStart]_vars

\* The creator calls Start SeqCalls times; every Close caller calls Close once;
\* one Send caller sends SeqCalls messages one after the other.
InitClose ==
    /\ quota = [p \in Callers |->
           IF p \in {FirstStarter, FirstSender} THEN SeqCalls
           ELSE IF p \in Closers THEN 1 ELSE 0]
    /\ sendCap = QueueCap
    /\ InitConn
    /\ InitRest

NextClose ==
    \/ Start(FirstStarter)
    \/ \E p \in Closers : Close(p)
    \/ Send(FirstSender)
    \/ ParentCancel
    \/ mainLoop
    \/ writeLoop
    \/ netReader

SpecClose == InitClose /\ [][NextClose]_vars

\* The creator calls Start once; every Send caller sends one message.
InitSend ==
    /\ quota = [p \in Callers |->
           IF p = FirstStarter \/ p \in Senders THEN 1 ELSE 0]
    /\ sendCap = QueueCap
    /\ InitConn
    /\ InitRest

NextSend ==
    \/ StartFirst(FirstStarter)
    \/ \E p \in Senders : Send(p)
    \/ ParentCancel
    \/ mainLoop
    \/ writeLoop
    \/ netReader

SpecSend == InitSend /\ [][NextSend]_vars

\* The creator calls Start once, one caller calls Close once and one caller
\* sends SeqCalls messages, under fair scheduling: a goroutine that can take a
\* step takes one eventually (callers are not obliged to call, only to finish
\* Start).
FirstCloser == <<"close", 1>>

InitLive ==
    /\ quota = [p \in Callers |->
           IF p = FirstSender THEN SeqCalls
           ELSE IF p \in {FirstStarter, FirstCloser} THEN 1 ELSE 0]
    /\ sendCap = QueueCap
    /\ InitConn
    /\ InitRest

NextLive ==
    \/ StartFirst(FirstStarter)
    \/ CloseFirst(FirstCloser)
    \/ Send(FirstSender)
    \/ ParentCancel
    \/ mainLoop
    \/ writeLoop
    \/ netReader

\* The steps of a Start call that is running the Once's function.
StartSteps(p) ==
    \/ StartTransport(p)
    \/ StartActive(p)
    \/ StartConnect(p)

FairLoops ==
    /\ WF_vars(StartSteps(FirstStarter))
    /\ WF_vars(mainLoop)
    /\ WF_vars(writeLoop)
    /\ WF_vars(netReader)

SpecLive == InitLive /\ [][NextLive]_vars /\ FairLoops

\* The creator calls Start once and one caller sends SeqCalls messages; no
\* Close is called and the parent scope is not canceled, so that only the
\* connection's own loops can cancel the scope.  Fair scheduling as above.
InitEscalate ==
    /\ quota = [p \in Callers |->
           IF p = FirstSender THEN SeqCalls
           ELSE IF p = FirstStarter THEN 1 ELSE 0]
    /\ sendCap = QueueCap
    /\ InitConn
    /\ InitRest

NextEscalate ==
    \/ StartFirst(FirstStarter)
    \/ Send(FirstSender)
    \/ mainLoop
    \/ writeLoop
    \/ netReader

SpecEscalate == InitEscalate /\ [][NextEscalate]_vars /\ FairLoops

\* The creator calls Start once and every Send caller sends one message on a
\* connection whose queue has fewer slots than there are callers.
InitBlock ==
    /\ quota = [p \in Callers |->
           IF p = FirstStarter \/ p \in Senders THEN 1 ELSE 0]
    /\ sendCap = SmallCap
    /\ InitConn
    /\ InitRest

NextBlock ==
    \/ StartFirst(FirstStarter)
    \/ \E p \in Senders : Send(p)
    \/ \E p \in Senders : SendWait(p)
    \/ ParentCancel
    \/ mainLoop
    \/ writeLoop
    \/ netReader

SpecBlock == InitBlock /\ [][NextBlock]_vars

(***************************************************************************)
(* Specifications of the datagram multiplexer and of the Recv path.        *)
(***************************************************************************)
InitOther ==
    /\ NoCalls
    /\ InitRest

NextUDP ==
    \/ Delivery
    \/ Reaper
    \/ pseudoConn

SpecUDP == InitOther /\ [][NextUDP]_vars

\* The reaper goroutine keeps sweeping, and a control loop whose scope is
\* canceled runs to its end.
FairUDP ==
    /\ WF_vars(Reaper)
    /\ \A c \in ConnIds : WF_vars(UDPStop(c) \/ UDPClosed(c))

SpecUDPLive == InitOther /\ [][NextUDP]_vars /\ FairUDP

NextRecv ==
    \/ \E chunk \in Chunks : Recv(chunk)
    \/ RunTask

SpecRecv == InitOther /\ [][NextRecv]_vars

\* The Recv path with each of the bundled framers.
InitFramerSpec ==
    /\ NoCalls
    /\ OneServer
    /\ OneLimit
    /\ OneRouter
    /\ OneChain
    /\ framer \in Framers
    /\ decoder = "raw"
    /\ InitParts

NextFramer ==
    \/ \E chunk \in ChunksOf(framer) : Recv(chunk)
    \/ RunTask

SpecFramer == InitFramerSpec /\ [][NextFramer]_vars

\* The Recv path with framers and decoders that may return an error.
InitErrorSpec ==
    /\ NoCalls
    /\ OneServer
    /\ OneLimit
    /\ OneRouter
    /\ OneChain
    /\ framer \in {"lengthField", "badField"}
    /\ InitParts

SpecError == InitErrorSpec /\ [][NextFramer]_vars

(***************************************************************************)
(* Specification of the idle check.                                        *)
(***************************************************************************)
NextIdle ==
    \/ Elapse
    \/ Touch
    \/ IdleTick

SpecIdle == InitOther /\ [][NextIdle]_vars

(***************************************************************************)
(* Specification of a server, under fair scheduling of the goroutine in    *)
(* Listen, of the connections' control loops and of the running Stop calls.*)
(***************************************************************************)
NextServer ==
    \/ Listen
    \/ ServerParentCancel
    \/ serveLoop
    \/ reaper
    \/ ConnDone
    \/ \E p \in Stoppers : Stop(p)

FairServer ==
    /\ WF_vars(serveLoop)
    /\ WF_vars(reaper)
    /\ WF_vars(ConnDone)
    /\ \A p \in Stoppers : WF_vars(StopWait(p) \/ StopAgain(p))

InitServerSpec ==
    /\ NoCalls
    /\ OneLimit
    /\ OneRouter
    /\ OneFramer
    /\ OneChain
    /\ InitParts

SpecServer == InitServerSpec /\ [][NextServer]_vars /\ FairServer

(***************************************************************************)
(* Specification of one token bucket used by several goroutines.           *)
(***************************************************************************)
NextBucket ==
    \/ BucketTick
    \/ \E g \in Allowers : Allow(g)

SpecBucket == InitOther /\ [][NextBucket]_vars

(***************************************************************************)
(* Specification of the rate limiter.                                      *)
(***************************************************************************)
NextLimit ==
    \/ LimitTick
    \/ \E c \in LimitConns : RateLimitHandler(c)

InitLimitSpec ==
    /\ NoCalls
    /\ OneServer
    /\ OneRouter
    /\ OneFramer
    /\ OneChain
    /\ InitParts

SpecLimit == InitLimitSpec /\ [][NextLimit]_vars

(***************************************************************************)
(* Specification of the router's dispatch.                                 *)
(***************************************************************************)
NextRouter == \E r \in Resolved : RouterHandler(r)

InitRouterSpec ==
    /\ NoCalls
    /\ OneServer
    /\ OneLimit
    /\ OneFramer
    /\ OneChain
    /\ InitParts

SpecRouter == InitRouterSpec /\ [][NextRouter]_vars

(***************************************************************************)
(* Specification of the LRU cache: any sequence of its methods.            *)
(***************************************************************************)
NextLRU ==
    \/ \E k \in Keys : Get(k)
    \/ \E k \in Keys, v \in Routes : Add(k, v)
    \/ Clear

SpecLRU == InitOther /\ [][NextLRU]_vars

(***************************************************************************)
(* Specification of a Router: goroutines that register routes and          *)
(* goroutines that match paths.                                            *)
(***************************************************************************)
NextTrie ==
    \/ \E w \in Inserters : insert(w)
    \/ \E m \in Matchers : RouterMatch(m)

SpecTrie == InitOther /\ [][NextTrie]_vars

(***************************************************************************)
(* Specification of the middleware chain: decoded messages, one at a time. *)
(***************************************************************************)
NextChain == \E msg \in Messages : ChainTask(msg)

InitChainSpec ==
    /\ NoCalls
    /\ OneServer
    /\ OneLimit
    /\ OneFramer
    /\ notFound = NoChain
    /\ InitParts
    /\ \A h \in UserHandlers : h > NumHandlers => callsNext[h]

SpecChain == InitChainSpec /\ [][NextChain]_vars

(***************************************************************************)
(* Specification of the submissions to the worker pool.                    *)
(***************************************************************************)
NextPool ==
    \/ \E d \in Dispatchers : Dispatch(d)
    \/ \E d \in Dispatchers : SubmitTask(d)
    \/ PoolWorker
    \/ PoolClose

SpecPool == InitOther /\ [][NextPool]_vars

(***************************************************************************)
(* Specification of the router groups: concurrent Use and Handlers.        *)
(***************************************************************************)
NextGroups ==
    \/ \E u \in Users : Use(u)
    \/ \E r \in Readers : Handlers(r)

SpecGroups == InitOther /\ [][NextGroups]_vars

(***************************************************************************)
(* Specification of the frame tasks with panicking handlers.               *)
(***************************************************************************)
NextPanic ==
    \/ \E n \in 1..ChunkFrames : RecvFrames(n)
    \/ \E i \in 1..NumWorkers, thrower \in 0..Len(NewChain) : RunJob(i, thrower)

SpecPanic == InitOther /\ [][NextPanic]_vars

(***************************************************************************)
(* Specification of the stream inbound loop.                               *)
(***************************************************************************)
NextReader ==
    \/ ScopeCancel
    \/ NetCheck
    \/ \E n \in {0, 1}, err \in ReadErrors : NetRead(n, err)
    \/ NetDeliver
    \/ NetHandle

SpecReader == InitOther /\ [][NextReader]_vars

(***************************************************************************)
(* Specification of the pool's workers.  A Submit call that has begun      *)
(* returns, and a worker goroutine that can take a task, finish one or end *)
(* its exit does so; no fairness makes an idle timer fire or a new task    *)
(* arrive.                                                                 *)
(***************************************************************************)
NextWorkers ==
    \/ \E s \in Submitters : Submit(s)
    \/ \E w \in WorkerIds : worker(w)

FairWorkers ==
    /\ \A s \in Submitters : WF_vars(SubmitEnqueue(s))
    /\ \A w \in WorkerIds : WF_vars(WorkerTake(w) \/ WorkerRun(w) \/ WorkerExit(w))

SpecWorkers == InitOther /\ [][NextWorkers]_vars /\ FairWorkers

(***************************************************************************)
(* Specification of one call of the length-field framer.                   *)
(***************************************************************************)
NextFraming ==
    \/ \E cfg \in Settings, buf \in Inputs : FramerCall(cfg, buf)
    \/ FieldRound

SpecFraming == InitOther /\ [][NextFraming]_vars

(***************************************************************************)
(* Specification of the state machine.                                     *)
(***************************************************************************)
NextMachine ==
    \/ \E state \in MachineStates, fails \in FailAt : Change(state, fails)
    \/ \E ev \in MachineEvents, fails \in FailAt : Event(ev, fails)

SpecMachine == InitOther /\ [][NextMachine]_vars
(***************************************************************************)
(* Claims about the connection engine.                                     *)
(***************************************************************************)
IsPrefix(a, b) == Len(a) <= Len(b) /\ SubSeq(b, 1, Len(a)) = a
Bufs(ws) == [i \in 1..Len(ws) |-> ws[i][1]]

\* C1: on a started connection, concurrent Close calls together with the other
\* cancellations of the scope give exactly one close-hook dispatch and exactly
\* one signalling of the closed channel (never more than one; exactly one once
\* the control loop has finished; the hook before the signal), a Close that has
\* returned has canceled the scope, and a Close call that has not returned is
\* never stuck: some Close call can take a step.
C1_CloseOnce ==
    /\ hooks["close"] <= 1
    /\ closedCloses <= 1
    /\ closedSignalled => hooks["close"] = 1
    /\ pc[MainId] = "done" => (hooks["close"] = 1 /\ closedCloses = 1)
    /\ \A p \in Closers : Returned(p) => ctxDone
    /\ \A p \in Closers :
          (Published /\ pc[p] # "done") => \E q \in Closers : ENABLED Close(q)

\* C1 witness: every Close caller has returned from its call on the closed
\* connection, the first of them after the closed channel was signalled.
C1_Witness ==
    /\ \A p \in Closers : pc[p] = "done"
    /\ hooks["close"] = 1
    /\ closedCloses = 1

\* C2 (as claimed): a Send invoked on an inactive connection or after the scope
\* was canceled returns the closed error without enqueuing its frame or
\* dispatching the send hook, and no Send ever operates on the closed queue.
C2_SendAfterCancel ==
    \A p \in Senders :
        /\ sendAt[p] = "canceled" => pc[p] = "x_select"
        /\ sendRes[p] # "panic"

\* C5: the frames handed to Transport.Write are, in order, an initial part of
\* the frames in the order Send enqueued them: none reordered, none written twice.
C5_WriteFifo ==
    /\ IsPrefix(Bufs(written), enq)
    /\ IsPrefix(deq, enq)

\* C5 witness: two frames were written, and the caller that invoked Send second
\* enqueued first.
C5_Witness ==
    /\ Len(written) = 2
    /\ written[1][1] = GenericEncoder(MsgOf(<<"send", 2>>))

\* C6 (as claimed): every frame the write loop has dequeued (and is done with)
\* has exactly one write hook, in dequeue order.
C6_HookPerDequeue ==
    pc[WriterId] # "w_write" => Bufs(writeHooks) = deq

\* C6 (amended): every frame the write loop dequeued and handed to the transport
\* has exactly one write hook, carrying that frame and the error of its write,
\* in dequeue order; only the last write can have failed with the socket closed,
\* and the frames dequeued after it (the drain) have no write hook.
C6_HookPerWrite ==
    /\ writeHooks = written
    /\ IsPrefix(Bufs(writeHooks), deq)
    /\ \A i \in 1..(Len(writeHooks) - 1) : writeHooks[i][2] # "closed"
    /\ pc[WriterId] = "w_write" => Len(deq) = Len(writeHooks) + 1
    /\ pc[WriterId] \in {"w_init", "w_recv"} => Len(deq) = Len(writeHooks)
    /\ Len(deq) > Len(writeHooks) + 1 => writeHooks[Len(writeHooks)][2] = "closed"

\* C6 witness: a write failed with the socket closed and the write loop then
\* drained a queued frame without a write hook.
C6_Witness ==
    /\ Len(writeHooks) = 1
    /\ writeHooks[1][2] = "closed"
    /\ Len(deq) = 2

\* C7 (as claimed): the connect hook is dispatched before any read or message
\* hook, and the close hook after every other hook of the connection.
C7_HookOrder == ~early /\ ~late

\* C8 (as claimed): the outbound queue is closed at most once and only after the
\* inbound delivery has shut down.
C8_CloseAfterReader ==
    /\ sendChCloses <= 1
    /\ sendChClosed => pc[ReaderId] = "done"

\* C8 (amended): the outbound queue is closed exactly once per connection, by
\* the control loop, after the scope has been canceled and before the control
\* loop waits for the write loop and the inbound delivery and calls transport stop.
C8_CloseOnCancel ==
    /\ sendChCloses <= 1
    /\ sendChClosed <=> pc[MainId] \in {"m_wait", "m_stop", "m_hook", "m_signal", "done"}
    /\ sendChClosed => ctxDone
    /\ tStops > 0 => sendChClosed

\* C8 witness: the queue is closed while the inbound delivery is still running.
C8_Witness == sendChCloses = 1 /\ readerUp

\* C9 (as claimed): IsActive() is false before Start and once the connection
\* has reached the closed state.
C9_InactiveWhenClosed ==
    /\ startOnce = "new" => ~IsActive
    /\ closedSignalled => ~IsActive

\* C10: concurrent and repeated Start calls launch one control loop, one write
\* loop and one inbound delivery and dispatch the connect hook once: never more
\* than one of each, and exactly one of each once a Start call has returned.
C10_StartOnce ==
    /\ \A l \in Loops : launched[l] <= 1
    /\ tStarts <= 1
    /\ hooks["connect"] <= 1
    /\ (\E p \in Starters : Returned(p)) =>
          /\ \A l \in Loops : launched[l] = 1
          /\ tStarts = 1
          /\ hooks["connect"] = 1

\* C10 witness: every Start caller has returned.
C10_Witness == \A p \in Starters : pc[p] = "done"


\* The connection has reached the end of its shutdown.
Finalized ==
    /\ pc[WriterId] = "done"
    /\ pc[ReaderId] = "done"
    /\ tStops = 1
    /\ hooks["close"] = 1
    /\ closedSignalled

\* C11: once the scope of a started connection is canceled (by Close, by the
\* parent scope, by the reader or by the write loop), under fair scheduling the
\* write loop and the inbound delivery exit, transport stop is called, the
\* close hook is dispatched and the closed channel is signalled.
C11_CancelFinalizes == (ctxDone /\ startOnce # "new") ~> Finalized

\* C11 witness: a connection canceled by its parent scope, with no Close call,
\* has finished its shutdown.
C11_Witness == Finalized /\ closeOnce = "new"

\* What a step may do to the queue and to a Send caller parked on the full queue.
BlockedSendStep ==
    /\ Len(sendCh') <= sendCap
    /\ \A p \in Senders :
          pc[p] = "x_blocked" =>
             \/ pc'[p] = "x_blocked" /\ enq' = enq
             \/ /\ ctxDone
                /\ sendRes'[p] = "closed"
                /\ enq' = enq
                /\ hooks' = hooks
             \/ /\ ~ctxDone
                /\ Len(sendCh) = sendCap
                /\ deq' = Append(deq, Head(sendCh))
                /\ enq' = Append(enq, GenericEncoder(MsgOf(p)))
                /\ pc'[p] = "x_hook"

\* C12: the outbound queue never holds more frames than its capacity; a Send
\* parked on the full queue stays parked until a receive frees a slot (its frame
\* then takes the slot) or the scope is canceled, and once the scope is canceled
\* it returns the closed error without enqueuing its frame or dispatching a hook.
C12_BlockedSend == [][BlockedSendStep]_vars

\* C12 witness: the scope was canceled with a Send parked on the full queue,
\* and the write loop has since freed a slot that the parked Send did not take.
C12_Witness ==
    \E p \in Senders : pc[p] = "x_blocked" /\ ctxDone /\ Len(sendCh) < sendCap

\* C28 (as claimed): transport stop is called at most once, and only when
\* the write loop and the inbound delivery have both been launched and have
\* exited; the close hook is dispatched after transport stop and before the
\* closed channel is signalled.
C28_StopAfterLoops ==
    /\ tStops <= 1
    /\ tStops > 0 => pc[WriterId] = "done" /\ pc[ReaderId] = "done"
    /\ hooks["close"] > 0 => tStops > 0
    /\ closedCloses > 0 => hooks["close"] > 0

\* C28 (the order of the finalizer alone): transport stop at most once, then
\* the close hook, then the closed channel.
C28_FinalizerOrder ==
    /\ tStops <= 1
    /\ hooks["close"] > 0 => tStops > 0
    /\ closedCloses > 0 => hooks["close"] > 0

\* A transport write has returned the socket-closed error.
ClosedWrite == \E i \in 1..Len(written) : written[i][2] = "closed"

\* C29 (as claimed): after a transport write returned the socket-closed
\* error, with no Close call and no cancel of the parent scope, the write
\* loop cancels the scope and the connection reaches the closed state.
C29_WriteErrorCloses == ClosedWrite ~> (ctxDone /\ Finalized)

\* C29 (no further write): the write that returned the socket-closed error
\* is the last write of the connection.
C29_NoWriteAfterClosed ==
    \A i \in 1..Len(written) : written[i][2] = "closed" => i = Len(written)
(***************************************************************************)
(* Claims about the datagram multiplexer and the Recv path.                *)
(***************************************************************************)
\* A pseudo-connection that was started and has not yet signalled closed.
Live(c) == ust[c] \in {"started", "canceled", "stopped"}

\* The frames of the whole inbound stream.
RECURSIVE Concat(_)
Concat(ss) == IF ss = <<>> THEN <<>> ELSE Head(ss) \o Concat(Tail(ss))

StreamFrames ==
    LET s == Concat(stream)
        f == Frame(framer, s).frames
    IN [i \in 1..Len(f) |-> Bytes(<<s>>, 1, f[i].start, f[i].len)]

\* C3: at every moment each peer key has at most one pseudo-connection that
\* is started and not yet closed, and a pseudo-connection that lost the
\* load-or-store is never started.
C3_OnePerKey ==
    \A k \in Peers : Cardinality({c \in ConnIds : keyOf[c] = k /\ Live(c)}) <= 1

\* C4: with the line framer, the payload every decode task sees is the exact
\* bytes of its frame in the inbound stream, however the stream is cut into
\* chunks and whenever the task runs.
C4_ExactPayload ==
    /\ Len(delivered) <= Len(StreamFrames)
    /\ \A i \in 1..Len(delivered) : delivered[i] = StreamFrames[i]

\* C13 (as claimed): an idle tick that finds the time since the last Touch
\* longer than the idle timeout, with no idle hook dispatched since that Touch,
\* dispatches the idle hook, and no idle hook is dispatched again before an
\* idle tick has seen renewed activity.
C13_IdleHook == ~idleMissed /\ ~idleRepeat

\* C14 (as claimed): after Stop is called on a listening server, stream or
\* datagram, the serve loop exits, Listen returns, the stop hook has been
\* dispatched exactly once, IsRunning() is false and every Stop call returns
\* (a process that a panic has ended is left aside).
C14_StopCompletes ==
    /\ [](stopHooks <= 1)
    /\ (srvStopOnce # "new") ~>
          \/ Crashed
          \/ /\ srvPc = "returned"
             /\ stopHooks = 1
             /\ ~IsRunning
             /\ \A p \in Stoppers : stopPc[p] # "wait"

\* C15 (as claimed): a step removes the peer-map entry of a pseudo-connection
\* only if it is that connection's own shutdown (its UDPTransport.Stop) or the
\* reaper's delete of the connection whose last-activity age the sweep has
\* just found to exceed the idle threshold.
EntryRemovalStep ==
    \A k \in Peers :
        LET c == connMap[k]
        IN (c # NoConn /\ connMap'[k] # c) =>
              \/ ust[c] = "canceled" /\ ust'[c] = "stopped"
              \/ rp.at = "delete" /\ rp'.at = "close" /\ rp.c = c

C15_ReaperRemoval == [][EntryRemovalStep]_vars

\* C16 (as claimed): a started pseudo-connection whose last activity is older
\* than the idle threshold is, unless traffic resumes, eventually out of the
\* peer map and closed, its close hook dispatched.
C16_IdleReaped ==
    \A c \in ConnIds :
        (ust[c] = "started" /\ stale[c]) ~>
            (~stale[c] \/ (ust[c] = "closed" /\ connMap[keyOf[c]] # c))

\* C17 (as claimed): the reaper of the datagram server gets the configured
\* idle timeout as its threshold when that is positive and 5 minutes when it
\* is unset, and its sweep ticker starts with the positive period of half
\* the threshold.
C17_ReaperThreshold ==
    reapPc # "none" =>
        /\ reapIdle = (IF cfgIdle > 0 THEN cfgIdle ELSE FiveMinutes)
        /\ reapPc # "panic"
        /\ reapIdle \div 2 > 0

\* The Allow calls that returned true at the clock instants a..b.
RECURSIVE GrantedIn(_, _)
GrantedIn(a, b) == IF a > b THEN 0 ELSE granted[a] + GrantedIn(a + 1, b)

\* C18 (as claimed): in every time interval of length D the Allow calls on
\* the bucket that return true number at most burst + floor(rate * D).
C18_BucketBound ==
    \A a \in 0..bclock : \A b \in a..bclock :
        GrantedIn(a, b) <= BucketBurst + (BucketRate * (b - a)) \div UnitsPerSec

\* C19: the rate limiter calls next exactly for a message that acquired a
\* token from its connection's bucket and one from the global bucket; when
\* either bucket refuses, the limit handler (if one is supplied) runs and the
\* limiter itself does not call next.
C19_BothTokens ==
    lastCall.conn # 0 =>
        /\ lastCall.next <=> (lastCall.connOk /\ lastCall.globalOk)
        /\ lastCall.limited <=> (~(lastCall.connOk /\ lastCall.globalOk) /\ limit # "nil")
        /\ ~(lastCall.next /\ lastCall.limited)

\* The global bucket refused a message that had acquired its connection's token.
C19_Witness ==
    /\ lastCall.conn # 0
    /\ lastCall.connOk
    /\ ~lastCall.globalOk
    /\ lastCall.limited
    /\ ~lastCall.next

\* The sub-chain RouterHandler builds for the latest call.
SubChain == IF Match(lastReq.path) THEN RouteHandlers ELSE notFound

ListKeys == {lru.ll[i].key : i \in 1..Len(lru.ll)}

\* C23: after any sequence of Get, Add and Clear the cache holds at most
\* its capacity of entries, its recency list and its map hold the same keys
\* (each once in the list), an Add that exceeds the capacity has evicted the
\* key least recently touched by Get or Add, and Clear leaves it empty.
C23_LruInvariant ==
    /\ Len(lru.ll) <= LruCap
    /\ ListKeys = lru.cache
    /\ Cardinality(ListKeys) = Len(lru.ll)
    /\ lastOp.evicted = lastOp.oldest
    /\ lastOp.op = "clear" => (lru.ll = <<>> /\ lru.cache = {})

\* An Add evicted a key from a cache whose order a Get hit had changed.
C23_Witness ==
    /\ lastOp.evicted # NoKey
    /\ \E k \in lru.cache : stamp[k] > 0 /\ stamp[k] < lruOps - 1

\* C21 (as claimed): what a Match call returns for a path is what a lookup
\* in the trie alone gives for that path at some moment of the call, whatever
\* the cache holds and however the call interleaves with insert.  An insert
\* that has stored its route but not yet returned counts as either done or
\* not done: the route it replaced is accepted as well.
C21_CacheTransparent ==
    \A m \in Matchers : mpc[m] = "return" => mres[m] \in seen[m]


\* C30 (as claimed): a compare-and-swap of Trie.Insert fails only because
\* another writer published a map between the load and the swap, so that an
\* Insert nobody interferes with completes: no swap has failed while the
\* node still held the map the inserter had loaded.
C30_InsertCompletes == ~spurious

\* C22 (its case): a reader can observe a key below the root only in a map
\* that holds a key.  No node ever holds such a map: every published map is
\* the empty one of the first compare-and-swap, so that what a Query sees of
\* a concurrent Insert is never more than nil or the empty map.
C22_OnlyEmptyMaps == \A n \in TriePaths : kids[n].keys = {}

\* C24 (as claimed): with each bundled framer, the frames that Recv hands to
\* the decoder, chunk after chunk with the remainder carried in readBuf, are
\* the frames that the framer returns for the whole stream at once, e.g.
\* "Hello" and then "ABC" for the length-field stream.
C24_FramerComposable ==
    stream # <<>> /\ tasks = <<>> => delivered = StreamFrames

\* C24 (the framers alone): but for the pass-through framer, the frames as
\* the framer returns them, chunk after chunk, are the frames of the whole
\* stream.
C24_FramesAtReturn ==
    framer # "raw" => yielded = StreamFrames

\* C24 (the pass-through framer): chunk after chunk, it returns the frames
\* of the whole stream.
C24_RawComposable ==
    framer = "raw" /\ stream # <<>> => yielded = StreamFrames

\* C24 (its example): after the two chunks of the length-field example, the
\* decoder has seen "Hello" and "ABC".
C24_Example ==
    /\ framer = "lengthField"
    /\ stream = << <<0, 0, 0, 5, 72, 101, 108, 108, 111, 0, 0, 0, 3, 65, 66>>, <<67>> >>
    /\ tasks = <<>>
    => delivered = << <<72, 101, 108, 108, 111>>, <<65, 66, 67>> >>

\* The payload the context holds after the handlers of hs ran on payload p,
\* each SetPayload replacing it.
RECURSIVE Current(_, _)
Current(hs, p) ==
    IF hs = <<>> THEN p
    ELSE Current(Tail(hs), IF setsPayload[Head(hs)] = "keep" THEN p
                           ELSE Replacement(Head(hs), setsPayload[Head(hs)]))

\* The handlers ran in registration order, each one but the first only
\* because the one before it called its next.
RanInOrder ==
    /\ IsPrefix(ran, NewChain)
    /\ \A i \in 2..Len(ran) : callsNext[ran[i - 1]]

C25_ChainToHook ==
    lastMsg # NoMsg =>
        /\ RanInOrder
        /\ hooked = IF \A h \in 1..NumHandlers : callsNext[h]
                    THEN <<Current(CfgHandlers, lastMsg)>>
                    ELSE <<>>

Received(i) == Concat(SubSeq(stream, 1, i))

\* C26: every chunk gets its read hook with the raw chunk, with the framer's
\* error exactly when the framer returned one (the length-field framer of an
\* unsupported size, once the buffer holds the length field), and a call
\* whose framer failed submits no frame; every frame whose task has run went
\* either to the message hook or, on a decoder error, to the error hook, not
\* to both; the connection's scope is not canceled, and chunks and frames
\* after a failure are processed in the same way.
C26_ErrorsReported ==
    /\ Len(readHooks) = Len(stream)
    /\ \A i \in 1..Len(stream) :
          /\ readHooks[i].chunk = stream[i]
          /\ readHooks[i].err =
                (framer = "badField" /\ Len(Received(i)) >= lengthFieldOffset + unsupportedSize)
    /\ stream # <<>> /\ framer = "badField" /\ Len(Received(1)) >= lengthFieldOffset + unsupportedSize
          => yielded = <<>> /\ delivered = <<>> /\ errHooks = <<>>
    /\ Len(delivered) + Len(errHooks) + Len(tasks) = Len(yielded)
    /\ decoder = "raw" => errHooks = <<>>
    /\ ~ctxDone

\* C26 witness: two chunks in a row got a read hook with the framer's error.
C26_Witness ==
    /\ Len(readHooks) >= 2
    /\ readHooks[1].err
    /\ readHooks[2].err
    /\ readHooks[2].chunk = stream[2]

\* C26 (decoder): a frame went to the error hook and a later one to the
\* message hook.
C26_DecoderWitness ==
    /\ errHooks # <<>>
    /\ delivered # <<>>
    /\ Len(stream) >= 2

\* C27 (as claimed): a dispatch whose submission the pool refuses returns
\* after a bounded number of further submissions: SubmitTask never nests
\* until the goroutine's stack is exhausted.
C27_BoundedResubmit ==
    \A d \in Dispatchers : subPc[d] # "overflow"

\* The middleware lists from the root group down to group g, outer first.
RECURSIVE RootToNode(_)
RootToNode(g) == IF g = NoGroup THEN <<>> ELSE RootToNode(ParentOf(g)) \o mw[g]

\* C31 (as claimed): a Use call with at least one handler returns: none is
\* ever left waiting for a lock that it holds itself.
C31_UseReturns ==
    \A u \in Users : upc[u] # "blocked"

\* A Use call has appended to the middleware of group g or of a group above
\* it and has not yet stored false into that group's cacheValid.
Invalidating(g) ==
    \E u \in Users : upc[u] = "invalidate" /\ ugroup[u] <= g

\* C32 (as claimed): whenever a group's cache is marked valid and its list
\* has been stored, the cached list is the current root-to-node
\* concatenation; the one step between a Use's append and its first store
\* into cacheValid is left out.
C32_CacheCurrent ==
    \A g \in Groups :
        cacheValid[g] /\ ~Invalidating(g) /\ (\A r \in Readers : ~(hpc[r] = "store" /\ hgroup[r] = g))
            => cached[g] = RootToNode(g)

\* The error tasks in the pool queue that carry the panic of frame f.
ErrorJobs(f) == {i \in 1..Len(jobs) : jobs[i].kind = "error" /\ jobs[i].frame = f}

\* The frame tasks in the pool queue.
FrameJobs == {jobs[i].frame : i \in {j \in 1..Len(jobs) : jobs[j].kind = "frame"}}

\* C33: a panic of a handler or of the message hook in a frame's task is
\* recovered in that task: the error hook is dispatched once for it, with
\* the panic value, and for no frame that did not panic; the scope is not
\* canceled; and every other frame submitted keeps its task, queued or run.
C33_PanicRecovered ==
    /\ \A f \in FrameIds :
          /\ Cardinality(ErrorJobs(f)) + Len(reported[f]) = (IF raised[f] # NoPanic THEN 1 ELSE 0)
          /\ \A i \in ErrorJobs(f) : jobs[i].value = raised[f]
          /\ \A i \in 1..Len(reported[f]) : reported[f][i] = raised[f]
    /\ ~ctxDone
    /\ FrameJobs \cup processed = 1..submitted

\* The first frame of a chunk panicked in the message hook, the error hook
\* has been called with the value, and the second frame has been processed
\* without a panic.
C33_Witness ==
    /\ raised[1] = Len(NewChain)
    /\ reported[1] = <<Len(NewChain)>>
    /\ 2 \in processed
    /\ raised[2] = NoPanic

\* What the inbound loop did after its read at position i of the log, up to
\* its next read.
AfterRead(i) ==
    LET later == {j \in (i + 1)..Len(nlog) : nlog[j].ev = "read"}
        stop == IF later = {} THEN Len(nlog) ELSE (CHOOSE j \in later : \A k \in later : j <= k) - 1
    IN [j \in 1..(stop - i) |-> nlog[i + j].ev]

\* The loop is past the handling of its latest read.
ReadHandled(i) ==
    \/ \E j \in (i + 1)..Len(nlog) : nlog[j].ev \in {"read", "return"}
    \/ npc = "check"

\* C34: the bytes of a read go to Recv before the read's error is handled; a
\* closed socket or EOF cancels and returns without an error hook; a
\* timeout or temporary error neither cancels nor reports, and the loop
\* goes on; any other error dispatches the error hook once, cancels and
\* returns.
C34_ReadThenError ==
    \A i \in 1..Len(nlog) :
        nlog[i].ev = "read" /\ ReadHandled(i) =>
            LET recv == IF nlog[i].n > 0 THEN <<"recv">> ELSE <<>>
                did == AfterRead(i)
            IN CASE nlog[i].err \in {"closed", "eof"} -> did = recv \o <<"cancel", "return">>
                 [] nlog[i].err \in {"timeout", "temporary"} ->
                        did \in {recv, recv \o <<"return">>}
                 [] nlog[i].err = "other" -> did = recv \o <<"error", "cancel", "return">>
                 [] OTHER -> did \in {recv, recv \o <<"return">>}

\* A read returned bytes together with an unrecoverable error: the bytes went
\* to Recv, then the error hook was dispatched and the scope canceled.
C34_Witness ==
    /\ npc = "returned"
    /\ ndone
    /\ \E i \in 1..Len(nlog) :
          /\ nlog[i] = [ev |-> "read", n |-> 1, err |-> "other"]
          /\ AfterRead(i) = <<"recv", "error", "cancel", "return">>
    /\ \E i \in 1..Len(nlog) : nlog[i].ev = "read" /\ nlog[i].err = "timeout"

\* The packets of pseudo-connection c that Recv has got or will get next, in
\* that order: the latest one received, then the queue.
Inbound(c) == (IF lastRecv[c] = 0 THEN <<>> ELSE <<lastRecv[c]>>) \o recvq[c]

\* The select of Delivery runs on the open channel of its pseudo-connection.
PushStep == dp.at = "push" /\ ~recvChClosed(dp.c) /\ dp'.at = "idle"

C36_AcceptedRuns ==
    \A t \in 1..MaxTasks : (t \in accepted) ~> (t \in executed)

\* C37 (as claimed): the select of Delivery never runs on a pseudo-connection
\* whose Stop has closed the inbound channel: Delivery, between its lookup
\* and its send, never holds such a connection, and no send has panicked.
C37_NoSendOnClosed ==
    /\ dp.at = "push" => ~recvChClosed(dp.c)
    /\ dp.at # "panic"

\* C38 (as claimed): a call of the framer returns, with neither a panic nor
\* a loop that stops consuming, and on return the frames with their
\* stripped headers and the remainder tile the input.
C38_FramerReturns ==
    /\ fpc \notin {"panic", "spinning"}
    /\ fpc = "returned" =>
          /\ \A i \in 1..Len(fout) :
                fout[i].start + fout[i].len <= (IF i < Len(fout) THEN fout[i + 1].start ELSE fpos)
          /\ fpos <= Len(fin) + 1

\* Allow of caller g returns in this step: its take loop ends.
AllowReturns(g) == apc[g] = "take" /\ apc'[g] = "idle"

\* C39: between 0 and the capacity in every state; and the step in which an
\* Allow returns takes exactly one token when it returns true (the grant is
\* counted) and none when it returns false; no other step takes a token.
C39_TokensInRange ==
    /\ [](0 <= tokens /\ tokens <= BucketBurst)
    /\ [][/\ \A g \in Allowers :
               AllowReturns(g) =>
                  IF granted' # granted THEN tokens' = tokens - 1 ELSE tokens' = tokens
          /\ tokens' < tokens => \E g \in Allowers : AllowReturns(g)]_vars

\* Allow has returned true and has returned false, a refill has happened
\* after the grant, and the bucket is full again.
C39_Witness ==
    /\ GrantedIn(0, MaxBucketTime) >= 1
    /\ allows > GrantedIn(0, MaxBucketTime) + Cardinality({g \in Allowers : apc[g] # "idle"})
    /\ lastRefill > 0
    /\ tokens = BucketBurst

\* C40 (as claimed): after a Change or Event call that returned an error the
\* state, the epoch and the snapshot are what the call found; after a call
\* that returned nil the snapshot holds the target and the epoch is one
\* more than the call found.
C40_ErrorKeepsState ==
    lastCmd.kind # "none" =>
        IF lastCmd.err # "nil"
        THEN mcurrent = lastCmd.from /\ epoch = lastCmd.epoch /\ snap = lastCmd.snap
        ELSE /\ snap.state = lastCmd.to
             /\ epoch = lastCmd.epoch + 1
             /\ snap.epoch = epoch

\* The same for every call but one whose after hook failed.
C40_ExceptAfter ==
    lastCmd.err # "after" => C40_ErrorKeepsState
====
